---- MODULE Spec2Model ----
(***************************************************************************)
(* Model of github.com/jucrouzet/grpcutils, package authorization:         *)
(* scheme registry (New / WithMethodFunction), metadata codec              *)
(* (AppendToOutgoingContext / authorizationMetaRegex / validateMethod),    *)
(* validation engine (parseMeta), interceptors and typed retrieval         *)
(* (GetFromContext).                                                       *)
(*                                                                         *)
(* Strings are sequences of one-character strings over Alphabet.  Every Go *)
(* value is a record [type, val]: type is the dynamic type, val a sequence *)
(* of strings (the characters of a string, the identity and the text of an *)
(* error, ...).  The nil interface value is Nil.                           *)
(***************************************************************************)
EXTENDS Naturals, Sequences, FiniteSets, TLC

\* ------------------------------------------------------------------ bounds

\* longest raw header value put directly in the incoming metadata
MaxHdrLen == 2
\* longest credential handed to AppendToOutgoingContext
MaxCredLen == 3
\* most options handed to New
MaxOpts == 2
\* the number of messages received and sent on one stream
MaxMsgs == 2
\* the number of calls in progress at the same time
MaxTasks == 2
\* the number of successive calls of requestid.AppendToOutgoingContext
MaxAppends == 2

\* ----------------------------------------------------------------- strings

\* one lowercase letter, one digit, one uppercase letter, the space and a
\* whitespace character that is not the space (and ends a line)
Alphabet == {"a", "1", "A", " ", "\n"}

StringsUpTo(n) == UNION {[1..k -> Alphabet] : k \in 0..n}

\* unicode.IsLetter, unicode.IsDigit on the runes of Alphabet
IsLetter(r) == r \in {"a", "A"}
IsDigit(r) == r = "1"

\* strings.ToLower, rune by rune
ToLowerRune(r) == IF r = "A" THEN "a" ELSE r
ToLower(s) == [i \in 1..Len(s) |-> ToLowerRune(s[i])]

\* strings.Contains(s, " ")
ContainsSpace(s) == \E i \in 1..Len(s) : s[i] = " "

\* the regexp class \s (RE2: [\t\n\f\r ]) and the class matched by `.`
\* (every character but the newline)
IsReSpace(r) == r \in {" ", "\n"}
IsReDot(r) == r # "\n"

SubStr(s, from, to) == [i \in 1..(to + 1 - from) |-> s[from + i - 1]]

\* ------------------------------------------------------------------ values

Nil == [type |-> "nil", val |-> <<>>]

StringValue(s) == [type |-> "string", val |-> s]

\* errors.New(text): a fresh error whose identity is its text
ErrorsNew(text) == [type |-> "*errors.errorString", val |-> <<text, text>>]

\* err.Error()
ErrorText(err) == Tail(err.val)

\* fmt.Errorf("%w<rest>", target): wraps target, the text is target's text
\* followed by rest
ErrorfW(target, rest) ==
    [type |-> "*fmt.wrapError", val |-> <<target.val[1]>> \o ErrorText(target) \o rest]

\* errors.Is(err, target) for a chain of at most one wrap
ErrorsIs(err, target) == err # Nil /\ err.val[1] = target.val[1]

ErrInvalidOptionValue == ErrorsNew("invalid option value")
ErrUnchecked == ErrorsNew("authorization metadata is unchecked")
ErrMissing == ErrorsNew("request has no authorization credentials")
ErrInvalid == ErrorsNew("authorization credentials are invalid")
ErrType == ErrorsNew("authorization has the wrong type")
ErrInvalidMethod == ErrorsNew("invalid authorization method")

\* ------------------------------------------------------------------- types

\* the declared types a destination slot can have: string, an interface type
\* and two channel types of which only one is assignable to the other
InterfaceTypes == {"interface {}", "error"}
ErrorTypes == {"*errors.errorString", "*fmt.wrapError"}
DestTypes == {"string", "interface {}", "chan int", "<-chan int"}

\* T implements the interface type I
Implements(T, I) == I = "interface {}" \/ (I = "error" /\ T \in ErrorTypes \cup {"error"})

\* reflect: T.AssignableTo(U), "a value of type T is assignable to type U"
AssignableTo(T, U) ==
    \/ T = U
    \/ U \in InterfaceTypes /\ Implements(T, U)
    \/ T = "chan int" /\ U = "<-chan int"

\* the zero value of a slot declared with type T
Zero(T) ==
    CASE T = "string" -> StringValue(<<>>)
      [] T \in {"chan int", "<-chan int"} -> [type |-> T, val |-> <<"nil">>]
      [] OTHER -> Nil

\* v.(error)
IsError(v) == v.type \in ErrorTypes

\* ------------------------------------------------------------ destinations

\* what the caller passes as dest: a value that is no pointer, a nil pointer,
\* or a pointer to a slot declared with type elem and holding slot
NonPointer == [kind |-> "value", elem |-> "int", slot |-> Nil]
NilPointer == [kind |-> "nilptr", elem |-> "string", slot |-> Nil]
PointerTo(T, v) == [kind |-> "ptr", elem |-> T, slot |-> v]

Dests == {NonPointer, NilPointer} \cup {PointerTo(T, Zero(T)) : T \in DestTypes}

\* ---------------------------------------------------------------- metadata

MetadataName == "authorization"

\* metadata.MD: a map from key to values; ok is what FromIncomingContext /
\* FromOutgoingContext report (the context carries metadata at all)
NoKV == [k \in {} |-> <<>>]
NoMD == [ok |-> FALSE, kv |-> NoKV]
EmptyMD == [ok |-> TRUE, kv |-> NoKV]

\* md[key]: the values of a key, none when the key is absent
MDGet(md, key) == IF key \in DOMAIN md.kv THEN md.kv[key] ELSE <<>>

\* MDSet adding val to the values of the key (md.Append)
MDSetAppending(md, key, val) ==
    [ok |-> TRUE,
     kv |-> [k \in DOMAIN md.kv \cup {key} |->
               IF k = key THEN MDGet(md, key) \o <<val>> ELSE md.kv[k]]]

\* md.Set(key, val): the key now carries exactly val
MDSet(md, key, val) ==
    [ok |-> TRUE,
     kv |-> [k \in DOMAIN md.kv \cup {key} |-> IF k = key THEN <<val>> ELSE md.kv[k]]]

\* ----------------------------------------------------------------- context

\* a context.Context: incoming and outgoing metadata, and the value stored
\* under contextValueKey (auth is <<>> when no value was stored, <<v>> after
\* context.WithValue(ctx, contextValueKey, v))
\* peer is what peer.FromContext finds (<<>> without peer, else <<addr>>) and
\* log the value stored under the contextValueKey of zaplogger
Background == [incoming |-> NoMD, outgoing |-> NoMD, auth |-> <<>>, peer |-> <<>>, log |-> <<>>]

\* contextValueKey with a context without value read as one without
\* credentials
contextValueKeyOrMissing(ctx) == IF ctx.auth = <<>> THEN ErrMissing ELSE ctx.auth[1]

\* ctx.Value(contextValueKey)
contextValueKey(ctx) == IF ctx.auth = <<>> THEN Nil ELSE ctx.auth[1]

\* WithValue with the value dropped: the handler gets the context of the call
WithValueDropped(ctx, v) == ctx

\* WithValue returning a context that carries the value and nothing else
WithValueAlone(ctx, v) == [Background EXCEPT !.auth = <<v>>]

\* context.WithValue(ctx, contextValueKey, v)
WithValue(ctx, v) == [ctx EXCEPT !.auth = <<v>>]

\* ---------------------------------------------------------- validateMethod

\* validateMethod without the comparison with strings.ToLower
validateMethodAnyCase(method) ==
    IF method = <<>>
    THEN ErrorfW(ErrInvalidMethod, <<": is empty">>)
    ELSE IF ContainsSpace(method)
    THEN ErrorfW(ErrInvalidMethod, <<": must not contains whitespace">>)
    ELSE IF \E i \in 1..Len(method) : ~IsLetter(method[i]) /\ ~IsDigit(method[i])
    THEN ErrorfW(ErrInvalidMethod, <<": must only contains alphanumeric characters">>)
    ELSE Nil

validateMethod(method) ==
    IF method = <<>>
    THEN ErrorfW(ErrInvalidMethod, <<": is empty">>)
    ELSE IF ContainsSpace(method)
    THEN ErrorfW(ErrInvalidMethod, <<": must not contains whitespace">>)
    ELSE IF method # ToLower(method)
    THEN ErrorfW(ErrInvalidMethod, <<": must be lowercase">>)
    ELSE IF \E i \in 1..Len(method) : ~IsLetter(method[i]) /\ ~IsDigit(method[i])
    THEN ErrorfW(ErrInvalidMethod, <<": must only contains alphanumeric characters">>)
    ELSE Nil

\* ---------------------------------------------------- authorizationMetaRegex

\* the end of the longest run of characters of class that starts at i
\* (i - 1 when the run is empty)
RunEnd(s, i, class) ==
    CHOOSE j \in (i - 1)..Len(s) :
        /\ \A k \in i..j : s[k] \in class
        /\ j = Len(s) \/ s[j + 1] \notin class

\* the characters matched by \s, by [^\s] and by .
ReSpace == {r \in Alphabet : IsReSpace(r)}
ReNotSpace == {r \in Alphabet : ~IsReSpace(r)}
ReDot == {r \in Alphabet : IsReDot(r)}

\* (?m)^ matches at the start of the text and after every newline
LineStart(s, i) == i = 1 \/ s[i - 1] = "\n"

\* ^([^\s]+)\s+(.*) matches at i: a non-empty run of non-spaces followed by
\* at least one space; every quantifier is greedy
MatchesAt(s, i) ==
    /\ LineStart(s, i)
    /\ i <= Len(s)
    /\ ~IsReSpace(s[i])
    /\ RunEnd(s, i, ReNotSpace) < Len(s)

\* SubmatchAt for a separator of one whitespace character (\s for \s+)
SubmatchAtOneSpace(s, i) ==
    LET e1 == RunEnd(s, i, ReNotSpace)
        e3 == RunEnd(s, e1 + 2, ReDot)
    IN <<SubStr(s, i, e3), SubStr(s, i, e1), SubStr(s, e1 + 2, e3)>>

\* the submatches of the match at i: <<whole, group 1, group 2>>
SubmatchAt(s, i) ==
    LET e1 == RunEnd(s, i, ReNotSpace)
        e2 == RunEnd(s, e1 + 1, ReSpace)
        e3 == RunEnd(s, e2 + 1, ReDot)
    IN <<SubStr(s, i, e3), SubStr(s, i, e1), SubStr(s, e2 + 1, e3)>>

\* FindStringSubmatch taking a text without match as a method without
\* credential
FindStringSubmatchWhole(s) ==
    LET starts == {i \in 1..Len(s) : MatchesAt(s, i)}
    IN IF starts = {} THEN <<s, s, <<>>>>
       ELSE SubmatchAt(s, CHOOSE i \in starts : \A j \in starts : i <= j)

\* authorizationMetaRegex.FindStringSubmatch(s): the leftmost match, <<>>
\* (nil) when there is none
FindStringSubmatch(s) ==
    LET starts == {i \in 1..Len(s) : MatchesAt(s, i)}
    IN IF starts = {} THEN <<>>
       ELSE SubmatchAt(s, CHOOSE i \in starts : \A j \in starts : i <= j)

\* -------------------------------------------------------------- validators

\* a CredentialValidator is named by an identifier; NilFn is the nil function
NilFn == "nil"
Validators == {"fooFunc", "switchFunc"}

\* what a validator returns: the value and the error
Return(v, err) == [v |-> v, err |-> err]

\* fn(ctx, credential).  fooFunc is the validator of the package's tests
\* (the accepted credential is "a"); switchFunc returns, depending on the
\* credential, each kind of value and of error a caller-supplied validator
\* can return: a nil value, a string, channels, a value that is itself an
\* error, a value together with an error, and errors that wrap ErrMissing,
\* ErrInvalid, ErrInvalidMethod or nothing.
CallValidator(fn, ctx, credential) ==
    CASE fn = "fooFunc" ->
           IF credential = <<"a">>
           THEN Return(StringValue(<<"o", "k">>), Nil)
           ELSE Return(Nil, ErrorsNew("boo"))
      [] fn = "switchFunc" ->
           CASE credential = <<>> -> Return(Nil, ErrMissing)
             [] credential = <<"a">> -> Return(StringValue(<<"o", "k", "2">>), Nil)
             [] credential = <<"1">> -> Return([type |-> "<-chan int", val |-> <<"c1">>], Nil)
             [] credential = <<"A">> -> Return(Nil, validateMethod(credential))
             [] credential = <<"1", "1">> -> Return([type |-> "chan int", val |-> <<"c2">>], Nil)
             [] credential = <<"a", "a">> -> Return(ErrorsNew("a value that is an error"), Nil)
             [] credential = <<"a", "1">> -> Return(Nil, ErrorfW(ErrInvalid, <<": expired">>))
             [] credential = <<"1", "a">> -> Return(Nil, Nil)
             [] credential = <<"A", "A">> -> Return(StringValue(<<"o", "k">>), ErrorsNew("ouch"))
             [] OTHER -> Return(Nil, ErrorsNew("boo"))

\* ---------------------------------------------------------------- registry

\* an *Authorization; NoInstance is the nil pointer
NoMethods == [m \in {} |-> NilFn]
NoInstance == [ok |-> FALSE, methods |-> NoMethods]
Authorization(methods) == [ok |-> TRUE, methods |-> methods]

\* the result of an option applied to a: the instance and the error
OptResult(a, err) == [a |-> a, err |-> err]

\* WithMethodFunction keeping the function a method already has
WithMethodFunctionKeeping(method, fn, a) ==
    IF fn = NilFn
    THEN OptResult(a, ErrorsNew("cannot use a nil function"))
    ELSE IF validateMethod(method) # Nil
    THEN OptResult(a, validateMethod(method))
    ELSE OptResult(
           Authorization([m \in DOMAIN a.methods \cup {method} |->
                            IF m \in DOMAIN a.methods THEN a.methods[m] ELSE fn]),
           Nil)

\* WithMethodFunction(method, fn)(a)
WithMethodFunction(method, fn, a) ==
    IF fn = NilFn
    THEN OptResult(a, ErrorsNew("cannot use a nil function"))
    ELSE IF validateMethod(method) # Nil
    THEN OptResult(a, validateMethod(method))
    ELSE OptResult(
           Authorization([m \in DOMAIN a.methods \cup {method} |->
                            IF m = method THEN fn ELSE a.methods[m]]),
           Nil)

\* NewLoop going on with the next option after one that failed
RECURSIVE NewLoopSkipping(_, _, _)
NewLoopSkipping(opts, i, a) ==
    IF i > Len(opts)
    THEN OptResult(a, Nil)
    ELSE LET r == WithMethodFunction(opts[i].method, opts[i].fn, a)
         IN IF r.err # Nil
            THEN NewLoopSkipping(opts, i + 1, a)
            ELSE NewLoopSkipping(opts, i + 1, r.a)

\* the loop of New over opts[i..], a being the instance built so far
RECURSIVE NewLoop(_, _, _)
NewLoop(opts, i, a) ==
    IF i > Len(opts)
    THEN OptResult(a, Nil)
    ELSE LET r == WithMethodFunction(opts[i].method, opts[i].fn, a)
         IN IF r.err # Nil
            THEN OptResult(NoInstance,
                           ErrorfW(ErrInvalidOptionValue, <<" : ">> \o ErrorText(r.err)))
            ELSE NewLoop(opts, i + 1, r.a)

\* New(opts...)
New(opts) == NewLoop(opts, 1, Authorization(NoMethods))

\* --------------------------------------------------------------- parseMeta

\* the outcome parseMeta returns and the validator invocations it made
Parsed(v, invoked) == [v |-> v, invoked |-> invoked]

\* Unsupported giving the outcome of a call without credentials
UnsupportedAsMissing(method) == ErrMissing

\* Unsupported without the name of the method
UnsupportedUnnamed(method) ==
    ErrorfW(ErrInvalid, <<": authorization method is not supported">>)

\* the outcome for a method without a validator
Unsupported(method) ==
    ErrorfW(ErrInvalid, <<": authorization method \"">> \o method \o <<"\" is not supported">>)

\* parseMeta invoking the validator of the method before the name of the
\* method is validated
parseMetaValidatorFirst(a, ctx) ==
    LET md == ctx.incoming
        vals == MDGet(md, MetadataName)
    IN IF ~md.ok \/ Len(vals) < 1
       THEN Parsed(ErrMissing, <<>>)
       ELSE LET res == FindStringSubmatch(vals[1])
            IN IF res = <<>>
               THEN Parsed(ErrorfW(ErrInvalid, <<": invalid format for authorization metadata">>), <<>>)
               ELSE IF ToLower(res[2]) \notin DOMAIN a.methods \/ a.methods[ToLower(res[2])] = NilFn
               THEN Parsed(IF validateMethod(res[2]) # Nil
                           THEN validateMethod(res[2]) ELSE Unsupported(res[2]), <<>>)
               ELSE LET fn == a.methods[ToLower(res[2])]
                        r == CallValidator(fn, ctx, res[3])
                        call == [fn |-> fn, ctx |-> ctx, credential |-> res[3]]
                    IN IF validateMethod(res[2]) # Nil
                       THEN Parsed(validateMethod(res[2]), <<call>>)
                       ELSE IF r.err # Nil
                       THEN Parsed(r.err, <<call>>)
                       ELSE Parsed(r.v, <<call>>)

\* parseMeta taking the last value of the key
parseMetaLastValue(a, ctx) ==
    LET md == ctx.incoming
        vals == MDGet(md, MetadataName)
    IN IF ~md.ok \/ Len(vals) < 1
       THEN Parsed(ErrMissing, <<>>)
       ELSE LET res == FindStringSubmatch(vals[Len(vals)])
            IN IF res = <<>>
               THEN Parsed(ErrorfW(ErrInvalid, <<": invalid format for authorization metadata">>), <<>>)
               ELSE IF validateMethod(res[2]) # Nil
               THEN Parsed(validateMethod(res[2]), <<>>)
               ELSE IF res[2] \notin DOMAIN a.methods \/ a.methods[res[2]] = NilFn
               THEN Parsed(Unsupported(res[2]), <<>>)
               ELSE LET fn == a.methods[res[2]]
                        r == CallValidator(fn, ctx, res[3])
                        call == [fn |-> fn, ctx |-> ctx, credential |-> res[3]]
                    IN IF r.err # Nil
                       THEN Parsed(r.err, <<call>>)
                       ELSE Parsed(r.v, <<call>>)

\* a.parseMeta(ctx)
parseMeta(a, ctx) ==
    LET md == ctx.incoming
        vals == MDGet(md, MetadataName)
    IN IF ~md.ok \/ Len(vals) < 1
       THEN Parsed(ErrMissing, <<>>)
       ELSE LET res == FindStringSubmatch(vals[1])
            IN IF res = <<>>
               THEN Parsed(ErrorfW(ErrInvalid, <<": invalid format for authorization metadata">>), <<>>)
               ELSE IF validateMethod(res[2]) # Nil
               THEN Parsed(validateMethod(res[2]), <<>>)
               ELSE IF res[2] \notin DOMAIN a.methods \/ a.methods[res[2]] = NilFn
               THEN Parsed(Unsupported(res[2]), <<>>)
               ELSE LET fn == a.methods[res[2]]
                        r == CallValidator(fn, ctx, res[3])
                        call == [fn |-> fn, ctx |-> ctx, credential |-> res[3]]
                    IN IF r.err # Nil
                       THEN Parsed(r.err, <<call>>)
                       ELSE Parsed(r.v, <<call>>)

\* InstanceAfter registering the method of the header, without validator,
\* when the instance has none for it
InstanceAfterRegistering(a, ctx) ==
    LET vals == MDGet(ctx.incoming, MetadataName)
        res == IF vals = <<>> THEN <<>> ELSE FindStringSubmatch(vals[1])
    IN IF res = <<>> \/ res[2] \in DOMAIN a.methods
       THEN a
       ELSE [a EXCEPT !.methods = [m \in DOMAIN @ \cup {res[2]} |->
                                     IF m = res[2] THEN NilFn ELSE @[m]]]

\* the instance after a.parseMeta(ctx): parseMeta reads a.methods and
\* writes nothing
InstanceAfter(a, ctx) == a

\* ---------------------------------------------------------- GetFromContext

\* how a call of GetFromContext ends: the error returned, the destination
\* afterwards, and whether it panicked instead of returning
GetResult(err, dest, panic) == [err |-> err, dest |-> dest, panic |-> panic]

\* KindIsPtr without the check
KindIsPtrAny(dest) == TRUE

\* ddest.Kind() == reflect.Ptr
KindIsPtr(dest) == dest.kind \in {"ptr", "nilptr"}

\* FailureError returning every stored error as it is
FailureErrorAsIs(err) == err

\* FailureError wrapping every stored error
FailureErrorWrapped(err) == ErrorfW(ErrInvalid, <<": ">> \o ErrorText(err))

\* the error returned for a stored error: as it is when it matches
\* ErrMissing or ErrInvalid, else a new error that wraps ErrInvalid and
\* carries the text of the stored one
FailureError(err) ==
    IF ErrorsIs(err, ErrMissing) \/ ErrorsIs(err, ErrInvalid)
    THEN err
    ELSE ErrorfW(ErrInvalid, <<": ">> \o ErrorText(err))

\* TypeMismatch reached after the value was set
TypeMismatchAfterSet(dest, v) ==
    GetResult(ErrorfW(ErrType, <<": expecting a ", dest.elem, " but got value is a ", v.type>>),
              [dest EXCEPT !.slot = v], FALSE)

\* the return on a type mismatch
TypeMismatch(dest, v) ==
    GetResult(ErrorfW(ErrType, <<": expecting a ", dest.elem, " but got value is a ", v.type>>),
              dest, FALSE)

\* GetFromContext(ctx, dest)
GetFromContext(ctx, dest) ==
    IF ~KindIsPtr(dest)
    THEN GetResult(ErrorfW(ErrType, <<": dest must be a pointer">>), dest, FALSE)
    ELSE LET v == contextValueKey(ctx)
         IN IF v = Nil
            THEN GetResult(ErrUnchecked, dest, FALSE)
            ELSE IF IsError(v)
            THEN GetResult(FailureError(v), dest, FALSE)
            ELSE IF dest.kind # "ptr"
            \* ddest.Elem() of a nil pointer (and of a value that is no pointer)
            \* is the zero Value, whose Type() panics
            THEN GetResult(Nil, dest, TRUE)
            ELSE IF ~AssignableTo(dest.elem, v.type)
            THEN TypeMismatch(dest, v)
            \* reflect's Set panics when v is not assignable to the slot's type
            ELSE IF ~AssignableTo(v.type, dest.elem)
            THEN GetResult(Nil, dest, TRUE)
            ELSE GetResult(Nil, [dest EXCEPT !.slot = v], FALSE)

\* ------------------------------------------------- AppendToOutgoingContext

\* the context and the error AppendToOutgoingContext returns; ok is false
\* when the context returned is nil
Appended(ok, ctx, err) == [ok |-> ok, ctx |-> ctx, err |-> err]

\* AppendToOutgoingContext(ctx, method, credential)
AppendToOutgoingContext(ctx, method, credential) ==
    IF validateMethod(method) # Nil
    THEN Appended(FALSE, Background, validateMethod(method))
    ELSE LET val == ToLower(method) \o <<" ">> \o credential
             md == IF ctx.outgoing.ok THEN ctx.outgoing ELSE EmptyMD
         IN Appended(TRUE, [ctx EXCEPT !.outgoing = MDSet(md, MetadataName, val)], Nil)

\* ------------------------------------------------------------------ inputs

\* the method names given to WithMethodFunction and AppendToOutgoingContext:
\* the empty name and every one-character name (a valid letter, a valid
\* digit, an uppercase letter, the space, another whitespace character)
MethodNames == StringsUpTo(1)

Credentials == StringsUpTo(MaxCredLen)

\* an option WithMethodFunction(method, fn)
Options == [method : MethodNames, fn : Validators \cup {NilFn}]
OptionLists == UNION {[1..k -> Options] : k \in 0..MaxOpts}

\* the incoming metadata a server context is built with directly
\* (metadata.NewIncomingContext): none at all, no authorization key, the key
\* without a value, the key with one value
IncomingMDs ==
    {NoMD, EmptyMD, [ok |-> TRUE, kv |-> [k \in {MetadataName} |-> <<>>]]}
    \cup {MDSet(EmptyMD, MetadataName, h) : h \in StringsUpTo(MaxHdrLen)}

\* what the transport hands to the server for a call made with the client
\* context ctx: the outgoing metadata of the client are the incoming metadata
\* of the call, which are always present
Transport(ctx) ==
    [incoming |-> [ok |-> TRUE, kv |-> ctx.outgoing.kv], outgoing |-> NoMD, auth |-> <<>>,
     peer |-> <<"bufconn">>, log |-> <<>>]

\* the contexts the client calls AppendToOutgoingContext on: without outgoing
\* metadata, and with outgoing metadata that already carry a credential
ClientContexts ==
    {Background,
     [Background EXCEPT !.outgoing = MDSet(EmptyMD, MetadataName, <<"1", " ", "1">>)]}

\* --------------------------------------------------------------- zaplogger

FieldServerName == "server_name"
FieldServerType == "server_type"
FieldRemoteAddr == "remote_addr"
FieldMethod == "method"
FieldRequestID == "requestid"

\* the errors of zaplogger; its ErrInvalidOptionValue has the text of the
\* one of authorization and is another error
zaploggerErrInvalidOptionValue ==
    [type |-> "*errors.errorString", val |-> <<"zaplogger.ErrInvalidOptionValue", "invalid option value">>]
ErrNoLoggerInContext == ErrorsNew("no logger in context")

\* remoteaddr.ErrNotAvailable
ErrNotAvailable == ErrorsNew("remote address is not available")

\* a *zap.Logger: nil, or a logger that writes to core the fields of ctx
\* with each message
ZapNil == [nil |-> TRUE, core |-> "none", ctx |-> <<>>]
ZapLogger(core) == [nil |-> FALSE, core |-> core, ctx |-> <<>>]

\* zap.String(key, val)
ZapString(key, val) == [key |-> key, val |-> val]

\* logger.With(field)
ZapWith(lg, field) == [lg EXCEPT !.ctx = @ \o <<field>>]

\* a *zaplogger.Logger; NilLogger is the nil pointer
NilLogger == [ok |-> FALSE, fields |-> <<>>, logger |-> ZapNil, serverName |-> <<>>]
EmptyLogger == [ok |-> TRUE, fields |-> <<>>, logger |-> ZapNil, serverName |-> <<>>]

\* l.GetLogger()
GetLogger(l) == l.logger

\* l.hasField(field)
hasField(l, field) == \E i \in 1..Len(l.fields) : l.fields[i] = field

\* l.addField(field)
addField(l, field) ==
    IF hasField(l, field) THEN l ELSE [l EXCEPT !.fields = @ \o <<field>>]

\* the loop of WithFields over fields[i..]
RECURSIVE addFields(_, _, _)
addFields(l, fields, i) ==
    IF i > Len(fields) THEN l ELSE addFields(addField(l, fields[i]), fields, i + 1)

\* the options of zaplogger
WithLogger(lg) == [opt |-> "WithLogger", logger |-> lg, fields |-> <<>>, name |-> <<>>]
WithFields(fields) == [opt |-> "WithFields", logger |-> ZapNil, fields |-> fields, name |-> <<>>]
WithServerName(name) == [opt |-> "WithServerName", logger |-> ZapNil, fields |-> <<>>, name |-> name]

\* opt(l): the Logger afterwards and the error
ApplyOption(opt, l) ==
    CASE opt.opt = "WithLogger" ->
           IF opt.logger.nil
           THEN OptResult(l, ErrorsNew("cannot use a nil logger"))
           ELSE OptResult([l EXCEPT !.logger = opt.logger], Nil)
      [] opt.opt = "WithFields" -> OptResult(addFields(l, opt.fields, 1), Nil)
      [] opt.opt = "WithServerName" ->
           IF opt.name = <<>>
           THEN OptResult(l, ErrorsNew("server name cannot be empty"))
           ELSE OptResult([l EXCEPT !.serverName = opt.name], Nil)

\* what zap.NewDevelopment() returns: a logger, or an error
Development == {Return(ZapLogger("development"), Nil), Return(ZapNil, ErrorsNew("sink"))}

\* NewLoggerEnd attaching the name of the server as soon as it is set
NewLoggerEndNamed(l, dev) ==
    IF l.logger.nil /\ dev.err # Nil
    THEN OptResult(NilLogger,
                   [type |-> "*fmt.wrapError",
                    val |-> <<dev.err.val[1], "failed creating a new logger: ">> \o ErrorText(dev.err)])
    ELSE LET ll == IF l.logger.nil THEN [l EXCEPT !.logger = dev.v] ELSE l
         IN IF ll.serverName # <<>>
            THEN OptResult([ll EXCEPT !.logger = ZapWith(@, ZapString(FieldServerName, ll.serverName))],
                           Nil)
            ELSE OptResult(ll, Nil)

\* the end of zaplogger.New, after the options: the default logger and the
\* name of the server
NewLoggerEnd(l, dev) ==
    IF l.logger.nil /\ dev.err # Nil
    THEN OptResult(NilLogger,
                   [type |-> "*fmt.wrapError",
                    val |-> <<dev.err.val[1], "failed creating a new logger: ">> \o ErrorText(dev.err)])
    ELSE LET ll == IF l.logger.nil THEN [l EXCEPT !.logger = dev.v] ELSE l
         IN IF hasField(ll, FieldServerName) /\ ll.serverName # <<>>
            THEN OptResult([ll EXCEPT !.logger = ZapWith(@, ZapString(FieldServerName, ll.serverName))],
                           Nil)
            ELSE OptResult(ll, Nil)

\* the loop of zaplogger.New over opts[i..]
RECURSIVE NewLoggerLoop(_, _, _, _)
NewLoggerLoop(opts, i, l, dev) ==
    IF i > Len(opts)
    THEN NewLoggerEnd(l, dev)
    ELSE LET r == ApplyOption(opts[i], l)
         IN IF r.err # Nil
            THEN OptResult(NilLogger,
                           ErrorfW(zaploggerErrInvalidOptionValue, <<" : ">> \o ErrorText(r.err)))
            ELSE NewLoggerLoop(opts, i + 1, r.a, dev)

\* zaplogger.New(opts...), dev being what zap.NewDevelopment() returns
zaploggerNew(opts, dev) == NewLoggerLoop(opts, 1, EmptyLogger, dev)

\* ------------------------------------------------------------------- state

VARIABLES
    a,        \* the result of New: the *Authorization (NoInstance before New and when New failed)
    newErr,   \* the result of New: the error
    built,    \* New has been called
    client,   \* the client: its context, the last AppendToOutgoingContext made on it
    call,     \* the call in progress on the server
    get,      \* the last GetFromContext of the handler of the call
    opts,     \* the options New was called with, where the caller keeps them
    tasks,    \* the calls in progress at the same time, each at its own step
    rid,      \* the call in progress on a server with the requestid interceptors
    out,      \* the client of requestid: its context, its last AppendToOutgoingContext
    logger,   \* the result of zaplogger.New: the *Logger and the error
    chain     \* the call in progress on a server with a chain of interceptors

vars == <<a, newErr, built, client, call, get, opts, tasks, rid, out, logger, chain>>

FreshClient ==
    [ok |-> TRUE, base |-> Background, ctx |-> Background, err |-> Nil,
     args |-> <<>>, sent |-> <<>>]

\* a call: req is the request (the srv of a stream) the call came with, hreq
\* the one the handler was invoked with, handlers the number of invocations
\* of the handler, ns the stream handed to the handler by the stream
\* interceptor, msgs the number of messages received and sent on it, hret
\* what the handler returned and ret what the interceptor returned
NoCall ==
    [pc |-> "idle", kind |-> "none", intercepted |-> FALSE, in |-> Background,
     ctx |-> Background, sent |-> <<>>, invoked |-> <<>>,
     req |-> "none", hreq |-> "none", handlers |-> 0, ns |-> <<>>, msgs |-> 0,
     hret |-> <<>>, ret |-> <<>>]

\* at is the number of messages of the stream when GetFromContext was called
NoGet ==
    [called |-> FALSE, before |-> NonPointer, res |-> GetResult(Nil, NonPointer, FALSE),
     at |-> 0, read |-> <<>>]

\* the calls that run at the same time
TaskIds == 1..MaxTasks

\* a call among them: the context it came with, the validator and the
\* credential parseMeta got to, the outcome, the context and the destination
\* of its handler, what GetFromContext returned to it
NoTask ==
    [pc |-> "idle", kind |-> "none", in |-> Background, fn |-> NilFn,
     credential |-> <<>>, v |-> Nil, ctx |-> Background, dest |-> NonPointer,
     got |-> <<>>]

\* a call on a server with the requestid interceptors: the context it came
\* with, whether its response header can still be set, the identifier the
\* interceptor settled on, the context of the handler, the number of
\* invocations of the handler, the response header, what GetFromContext
\* returned to the handler, the error the interceptor returned
NoRequest ==
    [pc |-> "idle", kind |-> "none", in |-> Background, open |-> TRUE, id |-> <<>>,
     ctx |-> Background, handlers |-> 0, header |-> EmptyMD, seen |-> <<>>,
     ret |-> <<>>]

\* the client of requestid: the context it started from, the one it has,
\* the arguments of its last AppendToOutgoingContext and how many it made
NoAppend == [base |-> Background, ctx |-> Background, args |-> <<>>, n |-> 0]

\* the result of zaplogger.New: the *Logger and the error; opts is the
\* options New was called with, where the caller keeps them, and logs the
\* entries the core of the logger received
NoLogger == [built |-> FALSE, l |-> NilLogger, err |-> Nil, opts |-> <<>>, logs |-> <<>>]

\* a call on a server with a chain of interceptors: the interceptors in
\* their order, the context the call came with, the context of the handler,
\* the number of invocations of the handler, the header of the response,
\* what zaplogger.GetFromContext and requestid.GetFromContext returned to
\* the handler, what the chain returned
NoChain ==
    [pc |-> "idle", kind |-> "none", order |-> <<>>, in |-> Background,
     ctx |-> Background, handlers |-> 0, header |-> EmptyMD, got |-> <<>>,
     seen |-> <<>>, ret |-> <<>>]

Init ==
    /\ a = NoInstance
    /\ newErr = Nil
    /\ built = FALSE
    /\ client = FreshClient
    /\ call = NoCall
    /\ get = NoGet
    /\ opts = <<>>
    /\ tasks = [i \in TaskIds |-> NoTask]
    /\ rid = NoRequest
    /\ out = NoAppend
    /\ logger = NoLogger
    /\ chain = NoChain

\* ----------------------------------------------------------------- actions

\* a, err := New(o...)
NewCalled(o) ==
    /\ ~built
    /\ a' = New(o).a
    /\ newErr' = New(o).err
    /\ built' = TRUE
    /\ UNCHANGED <<client, call, get>>

\* New called with one of the option lists
NewAuthorization ==
    /\ ~built
    /\ \E o \in OptionLists : NewCalled(o)
    /\ UNCHANGED <<opts, tasks, rid, out, logger, chain>>

\* New called with options the caller keeps
NewFromOptions ==
    /\ ~built
    /\ \E o \in OptionLists : NewCalled(o) /\ opts' = o
    /\ UNCHANGED <<tasks, rid, out, logger, chain>>

\* ctx, err = AppendToOutgoingContext(ctx, method, credential), made by the
\* client on one of the contexts it starts from
ClientAppendOn(bases, credentials) ==
    /\ a.ok
    /\ call.pc = "idle"
    /\ client = FreshClient
    /\ \E base \in bases, method \in MethodNames, credential \in credentials :
         LET r == AppendToOutgoingContext(base, method, credential)
         IN client' = [ok |-> r.ok, base |-> base, ctx |-> r.ctx, err |-> r.err,
                       args |-> <<[method |-> method, credential |-> credential]>>,
                       sent |-> IF r.ok THEN <<[method |-> method, credential |-> credential]>>
                                ELSE <<>>]
    /\ UNCHANGED <<a, newErr, built, call, get, opts, tasks, rid, out, logger, chain>>

ClientAppend == ClientAppendOn(ClientContexts, Credentials)

\* the client starts again from context.TODO()
ClientReset ==
    /\ call.pc = "idle"
    /\ client # FreshClient
    /\ client' = FreshClient
    /\ UNCHANGED <<a, newErr, built, call, get, opts, tasks, rid, out, logger, chain>>

\* the calls that can reach the server: the one the client makes with the
\* context it has built, and, from a client that has built none, those
\* whose server context is built directly; a client whose
\* AppendToOutgoingContext failed has no context to call with
Arrivals ==
    IF client.sent # <<>>
    THEN {[ctx |-> Transport(client.ctx), sent |-> client.sent]}
    ELSE IF client = FreshClient
    THEN {[ctx |-> [Background EXCEPT !.incoming = md], sent |-> <<>>] : md \in IncomingMDs}
    ELSE {}

\* the requests of the calls whose requests are told apart
Requests == {"ping", "pong"}

\* a.UnaryInterceptor()(ctx, req, info, handler), up to the call of handler,
\* for a call of arrs and a request of reqs
UnaryInterceptorFrom(arrs, reqs) ==
    /\ call.pc = "idle"
    /\ a.ok
    /\ \E arr \in arrs, req \in reqs :
         LET p == parseMeta(a, arr.ctx)
         IN /\ call' = [NoCall EXCEPT
                       !.pc = "handler", !.kind = "unary", !.intercepted = TRUE,
                       !.in = arr.ctx, !.ctx = WithValue(arr.ctx, p.v),
                       !.sent = arr.sent, !.invoked = p.invoked,
                       !.req = req, !.hreq = req, !.handlers = 1]
            /\ a' = InstanceAfter(a, arr.ctx)
    /\ client' = FreshClient
    /\ UNCHANGED <<newErr, built, get, opts, tasks, rid, out, logger, chain>>

UnaryInterceptorWith(reqs) == UnaryInterceptorFrom(Arrivals, reqs)

UnaryInterceptor == UnaryInterceptorWith({"ping"})

UnaryInterceptorRequests == UnaryInterceptorWith(Requests)

\* Context() answered by the embedded stream
ServerStreamContextEmbedded(ns) == ns.ServerStream

\* (*ServerStream).Context()
ServerStreamContext(ns) == ns.Ctx

\* a.StreamInterceptor()(srv, stream, info, handler), up to the call of
\* handler, for a call of arrs; the handler reads its context with
\* ns.Context()
StreamInterceptorFrom(arrs) ==
    /\ call.pc = "idle"
    /\ a.ok
    /\ \E arr \in arrs :
         LET p == parseMeta(a, arr.ctx)
             ns == [ServerStream |-> arr.ctx, Ctx |-> WithValue(arr.ctx, p.v)]
         IN /\ call' = [NoCall EXCEPT
                       !.pc = "handler", !.kind = "stream", !.intercepted = TRUE,
                       !.in = arr.ctx, !.ctx = ServerStreamContext(ns),
                       !.sent = arr.sent, !.invoked = p.invoked,
                       !.req = "srv", !.hreq = "srv", !.handlers = 1, !.ns = <<ns>>]
            /\ a' = InstanceAfter(a, arr.ctx)
    /\ client' = FreshClient
    /\ UNCHANGED <<newErr, built, get, opts, tasks, rid, out, logger, chain>>

StreamInterceptor == StreamInterceptorFrom(Arrivals)

\* a call on a server started without the interceptors: the handler is
\* called with the context of the call
NoInterceptor ==
    /\ a.ok
    /\ call.pc = "idle"
    /\ \E arr \in Arrivals, kind \in {"unary", "stream"} :
         call' = [NoCall EXCEPT
                    !.pc = "handler", !.kind = kind, !.intercepted = FALSE,
                    !.in = arr.ctx, !.ctx = arr.ctx, !.sent = arr.sent,
                    !.req = IF kind = "unary" THEN "ping" ELSE "srv",
                    !.hreq = IF kind = "unary" THEN "ping" ELSE "srv",
                    !.handlers = 1]
    /\ client' = FreshClient
    /\ UNCHANGED <<a, newErr, built, get, opts, tasks, rid, out, logger, chain>>

\* the context the handler has: the one it was called with, or the one its
\* stream answers to Context()
HandlerContext ==
    IF call.ns # <<>> THEN ServerStreamContext(call.ns[1]) ELSE call.ctx

\* the handler calls GetFromContext(ctx, dest); a panic ends the call
HandlerGet ==
    /\ call.pc = "handler"
    /\ \E dest \in Dests :
         LET r == GetFromContext(HandlerContext, dest)
         IN /\ get' = [NoGet EXCEPT !.called = TRUE, !.before = dest, !.res = r, !.at = call.msgs]
            /\ call' = [call EXCEPT !.pc = IF r.panic THEN "panicked" ELSE "handler"]
    /\ UNCHANGED <<a, newErr, built, client, opts, tasks, rid, out, logger, chain>>

\* the handler of a stream receives or sends a message: RecvMsg and SendMsg
\* of the stream it was handed are those of the embedded stream
StreamMsg ==
    /\ call.pc = "handler"
    /\ call.kind = "stream"
    /\ call.msgs < MaxMsgs
    /\ call' = [call EXCEPT !.msgs = @ + 1]
    /\ UNCHANGED <<a, newErr, built, client, get, opts, tasks, rid, out, logger, chain>>

\* what a handler returns: a response (nil for a stream) and an error
Responses == {Nil, StringValue(<<"o", "k">>)}
HandlerErrors == {Nil, ErrorsNew("denied")}
HandlerReturned(resp, err) == [resp |-> resp, err |-> err]

\* InterceptorReturn returning the failure of the call in place of what the
\* handler returned
InterceptorReturnRejecting(v, h) ==
    IF IsError(v) THEN HandlerReturned(Nil, v) ELSE h

\* what the interceptors return, v being the outcome and h what the handler
\* returned: return handler(...)
InterceptorReturn(v, h) == h

\* the handler returns and the interceptor returns
HandlerReturns ==
    /\ call.pc = "handler"
    /\ \E resp \in IF call.kind = "unary" THEN Responses ELSE {Nil}, err \in HandlerErrors :
         LET h == HandlerReturned(resp, err)
         IN call' = [call EXCEPT
                       !.pc = "done",
                       !.hret = <<h>>,
                       !.ret = <<IF call.intercepted
                                 THEN InterceptorReturn(contextValueKey(call.ctx), h)
                                 ELSE h>>]
    /\ UNCHANGED <<a, newErr, built, client, get, opts, tasks, rid, out, logger, chain>>

\* the call is over
CallEnd ==
    /\ call.pc = "done"
    /\ call' = NoCall
    /\ get' = NoGet
    /\ UNCHANGED <<a, newErr, built, client, opts, tasks, rid, out, logger, chain>>

\* the handler returns and the call ends
HandlerReturn ==
    /\ call.pc = "handler"
    /\ call' = NoCall
    /\ get' = NoGet
    /\ UNCHANGED <<a, newErr, built, client, opts, tasks, rid, out, logger, chain>>

Next ==
    \/ NewAuthorization
    \/ ClientAppend
    \/ ClientReset
    \/ UnaryInterceptor
    \/ StreamInterceptor
    \/ NoInterceptor
    \/ HandlerGet
    \/ HandlerReturn

Spec == Init /\ [][Next]_vars

\* the credentials of a client that tries every method name
ShortCredentials == {<<>>, <<"a">>}

ClientAppendShort == ClientAppendOn({Background}, ShortCredentials)

\* the program whose caller keeps the options it gave to New: construction,
\* then calls through the interceptors
NextNew ==
    \/ NewFromOptions
    \/ ClientAppendShort
    \/ ClientReset
    \/ UnaryInterceptor
    \/ StreamInterceptor
    \/ HandlerReturn

SpecNew == Init /\ [][NextNew]_vars

\* the credentials of a client that calls AppendToOutgoingContext again and
\* again
ChainCredentials == StringsUpTo(MaxCredLen - 2)

\* the context the client goes on with: the one its last
\* AppendToOutgoingContext returned, the one it had when that call failed
ClientContext == IF client.ok THEN client.ctx ELSE client.base

\* ctx, err = AppendToOutgoingContext(ctx, method, credential), on the
\* context the client has
ClientAppendAgain ==
    /\ call.pc = "idle"
    /\ \E method \in MethodNames, credential \in ChainCredentials :
         LET r == AppendToOutgoingContext(ClientContext, method, credential)
         IN client' = [ok |-> r.ok, base |-> ClientContext, ctx |-> r.ctx, err |-> r.err,
                       args |-> <<[method |-> method, credential |-> credential]>>,
                       sent |-> IF r.ok THEN <<[method |-> method, credential |-> credential]>>
                                ELSE <<>>]
    /\ UNCHANGED <<a, newErr, built, call, get, opts, tasks, rid, out, logger, chain>>

\* a client that builds its context by successive calls of
\* AppendToOutgoingContext
NextClient ==
    \/ ClientAppendAgain
    \/ ClientReset

SpecClient == Init /\ [][NextClient]_vars

\* --------------------------------------------------------------- requestid

\* requestid.MetadataName
requestidMetadataName == "request-id"

\* requestid.GetFromMeta(md): the first value of the key, "" without one
GetFromMeta(md) ==
    IF Len(MDGet(md, requestidMetadataName)) < 1
    THEN <<>>
    ELSE MDGet(md, requestidMetadataName)[1]

\* requestid.GetFromContext(ctx)
requestidGetFromContext(ctx) ==
    IF ~ctx.incoming.ok THEN <<>> ELSE GetFromMeta(ctx.incoming)

\* metadata.Pairs(k, v)
Pairs(k, v) == MDSet(EmptyMD, k, v)

\* the header of the response after SetHeader(md): md joined to what was set
\* before
SetHeader(header, md) ==
    [ok |-> TRUE,
     kv |-> [k \in DOMAIN header.kv \cup DOMAIN md.kv |-> MDGet(header, k) \o MDGet(md, k)]]

\* status.Error(codes.Internal, msg)
StatusInternal(msg) == [type |-> "*status.Error", val |-> <<"Internal", msg>>]

\* ChosenID always taking the generated identifier
ChosenIDGenerated(id, uuid) == uuid

\* the identifier of the call: the one it came with, uuid.New().String()
\* when it came with none
ChosenID(id, uuid) == IF id = <<>> THEN uuid ELSE id

\* the requestid interceptors up to the call of the handler, for a call that
\* comes with ctx, whose header can be set or not (open), uuid being what
\* uuid.New().String() returns
RequestIDInterceptor(kind, ctx, open, uuid) ==
    LET id == ChosenID(requestidGetFromContext(ctx), uuid)
        md == IF ctx.incoming.ok THEN ctx.incoming ELSE EmptyMD
        nctx == [ctx EXCEPT !.incoming = MDSet(md, requestidMetadataName, id)]
        ns == [ServerStream |-> ctx, Ctx |-> nctx]
    IN IF ~open
       THEN [NoRequest EXCEPT
               !.pc = "done", !.kind = kind, !.in = ctx, !.open = FALSE, !.id = id,
               !.ret = <<StatusInternal("failed setting request correlation identifier")>>]
       ELSE [NoRequest EXCEPT
               !.pc = "handler", !.kind = kind, !.in = ctx, !.id = id,
               !.ctx = IF kind = "stream" THEN ServerStreamContext(ns) ELSE nctx,
               !.handlers = 1,
               !.header = SetHeader(EmptyMD, Pairs(requestidMetadataName, id))]

\* the identifiers calls come with, and those uuid.New().String() returns
RequestIDs == {<<>>, <<"a">>, <<"1">>}
UUIDs == {<<"uuid-1">>, <<"uuid-2">>}

\* the contexts calls come with: without metadata, without the key, with
\* one or two values of the key
RequestContexts ==
    {[Background EXCEPT !.incoming = md] :
       md \in {NoMD, EmptyMD}
               \cup {[ok |-> TRUE, kv |-> [k \in {requestidMetadataName} |-> vals]] :
                       vals \in UNION {[1..n -> RequestIDs] : n \in 0..2}}}

\* requestid.UnaryServerInterceptor(ctx, req, info, handler)
UnaryServerInterceptor ==
    /\ rid.pc = "idle"
    /\ \E ctx \in RequestContexts, open \in BOOLEAN, uuid \in UUIDs :
         rid' = RequestIDInterceptor("unary", ctx, open, uuid)
    /\ UNCHANGED <<a, newErr, built, client, call, get, opts, tasks, out, logger, chain>>

\* requestid.StreamServerInterceptor(srv, stream, info, handler)
StreamServerInterceptor ==
    /\ rid.pc = "idle"
    /\ \E ctx \in RequestContexts, open \in BOOLEAN, uuid \in UUIDs :
         rid' = RequestIDInterceptor("stream", ctx, open, uuid)
    /\ UNCHANGED <<a, newErr, built, client, call, get, opts, tasks, out, logger, chain>>

\* the handler calls requestid.GetFromContext with its context
RequestHandlerGet ==
    /\ rid.pc = "handler"
    /\ rid.seen = <<>>
    /\ rid' = [rid EXCEPT !.seen = <<requestidGetFromContext(rid.ctx)>>]
    /\ UNCHANGED <<a, newErr, built, client, call, get, opts, tasks, out, logger, chain>>

\* the handler returns, and the interceptor with it
RequestHandlerReturn ==
    /\ rid.pc = "handler"
    /\ rid' = [rid EXCEPT !.pc = "done", !.ret = <<Nil>>]
    /\ UNCHANGED <<a, newErr, built, client, call, get, opts, tasks, out, logger, chain>>

\* the client has the response, header included
RequestEnd ==
    /\ rid.pc = "done"
    /\ rid' = NoRequest
    /\ UNCHANGED <<a, newErr, built, client, call, get, opts, tasks, out, logger, chain>>

\* a server with the requestid interceptors, call after call
NextRequestID ==
    \/ UnaryServerInterceptor
    \/ StreamServerInterceptor
    \/ RequestHandlerGet
    \/ RequestHandlerReturn
    \/ RequestEnd

SpecRequestID == Init /\ [][NextRequestID]_vars

\* metadata.AppendToOutgoingContext(ctx, key, val): the outgoing metadata of
\* the context returned are those of ctx with val added after the values
\* the key has
metadataAppendToOutgoingContext(ctx, key, val) ==
    LET md == IF ctx.outgoing.ok THEN ctx.outgoing ELSE EmptyMD
    IN [ctx EXCEPT !.outgoing =
          [ok |-> TRUE,
           kv |-> [k \in DOMAIN md.kv \cup {key} |->
                     IF k = key THEN MDGet(md, key) \o <<val>> ELSE md.kv[k]]]]

\* requestid.AppendToOutgoingContext(ctx, id...), uuid being what
\* uuid.New().String() returns
requestidAppendToOutgoingContext(ctx, id, uuid) ==
    LET requestID == IF Len(id) = 0 THEN uuid ELSE id[1]
    IN metadataAppendToOutgoingContext(ctx, requestidMetadataName, requestID)

\* the identifiers handed to AppendToOutgoingContext: none, the empty one,
\* one, two
IDArgs == {<<>>, <<<<>>>>, <<<<"a">>>>, <<<<"1">>>>, <<<<"a">>, <<"1">>>>}

\* the contexts the client of requestid starts from: context.TODO(), one
\* whose outgoing metadata carry an identifier, one whose outgoing metadata
\* carry a credential only
RequestClientContexts ==
    {Background,
     [Background EXCEPT !.outgoing = Pairs(requestidMetadataName, <<"before">>)],
     [Background EXCEPT !.outgoing = Pairs(MetadataName, <<"a", " ", "a">>)]}

\* the client takes the context it starts from
RequestClientStart ==
    /\ out = NoAppend
    /\ \E base \in RequestClientContexts \ {Background} :
         out' = [NoAppend EXCEPT !.base = base, !.ctx = base]
    /\ UNCHANGED <<a, newErr, built, client, call, get, opts, tasks, rid, logger, chain>>

\* ctx = requestid.AppendToOutgoingContext(ctx, id...)
RequestClientAppend ==
    /\ out.n < MaxAppends
    /\ \E id \in IDArgs, uuid \in UUIDs :
         out' = [out EXCEPT !.ctx = requestidAppendToOutgoingContext(out.ctx, id, uuid),
                            !.args = <<[id |-> id, uuid |-> uuid]>>,
                            !.n = @ + 1]
    /\ UNCHANGED <<a, newErr, built, client, call, get, opts, tasks, rid, logger, chain>>

\* the client starts again
RequestClientReset ==
    /\ out # NoAppend
    /\ out' = NoAppend
    /\ UNCHANGED <<a, newErr, built, client, call, get, opts, tasks, rid, logger, chain>>

\* a client that builds its context with requestid.AppendToOutgoingContext
NextRequestClient ==
    \/ RequestClientStart
    \/ RequestClientAppend
    \/ RequestClientReset

SpecRequestClient == Init /\ [][NextRequestClient]_vars

\* ------------------------------------------------ zaplogger interceptors

\* the nil net.Addr
NilAddr == "nil"

\* remoteaddr.GetFromContext(ctx): the address and the error
remoteaddrGetFromContext(ctx) ==
    IF ctx.peer = <<>>
    THEN Return(NilAddr, ErrorfW(ErrNotAvailable, <<": no peer infos">>))
    ELSE IF ctx.peer[1] = NilAddr
    THEN Return(NilAddr, ErrorfW(ErrNotAvailable, <<": nil address">>))
    ELSE Return(ctx.peer[1], Nil)

\* infos.FullMethod, and the %T of the server
FullMethod(kind) ==
    IF kind = "unary" THEN "/foobar.DummyService/Foo" ELSE "/foobar.DummyService/FooS"
ServerType == "*zaplogger.dummyLoggerWithFields"

\* getFor adding the requestid field whatever the identifier is
getForAnyID(l, ctx, kind) ==
    LET addr == remoteaddrGetFromContext(ctx)
        l1 == IF hasField(l, FieldRemoteAddr)
              THEN ZapWith(GetLogger(l), ZapString(FieldRemoteAddr, <<addr.v>>))
              ELSE GetLogger(l)
        l2 == IF hasField(l, FieldMethod)
              THEN ZapWith(l1, ZapString(FieldMethod, <<FullMethod(kind)>>))
              ELSE l1
        l3 == IF hasField(l, FieldServerType)
              THEN ZapWith(l2, ZapString(FieldServerType, <<ServerType>>))
              ELSE l2
        l4 == IF hasField(l, FieldRequestID)
              THEN ZapWith(l3, ZapString(FieldRequestID, requestidGetFromContext(ctx)))
              ELSE l3
    IN IF hasField(l, FieldRemoteAddr) /\ addr.err # Nil
       THEN Return(ZapNil, addr.err)
       ELSE Return(l4, Nil)

\* l.getForUnary(ctx, infos) and l.getForStream(ctx, infos, srv): the
\* logger of the call and the error
getFor(l, ctx, kind) ==
    LET addr == remoteaddrGetFromContext(ctx)
        l1 == IF hasField(l, FieldRemoteAddr)
              THEN ZapWith(GetLogger(l), ZapString(FieldRemoteAddr, <<addr.v>>))
              ELSE GetLogger(l)
        l2 == IF hasField(l, FieldMethod)
              THEN ZapWith(l1, ZapString(FieldMethod, <<FullMethod(kind)>>))
              ELSE l1
        l3 == IF hasField(l, FieldServerType)
              THEN ZapWith(l2, ZapString(FieldServerType, <<ServerType>>))
              ELSE l2
        l4 == IF hasField(l, FieldRequestID) /\ requestidGetFromContext(ctx) # <<>>
              THEN ZapWith(l3, ZapString(FieldRequestID, requestidGetFromContext(ctx)))
              ELSE l3
    IN IF hasField(l, FieldRemoteAddr) /\ addr.err # Nil
       THEN Return(ZapNil, addr.err)
       ELSE Return(l4, Nil)

\* context.WithValue(ctx, contextValueKey, logger), the key being the one of
\* zaplogger
WithLoggerValue(ctx, lg) == [ctx EXCEPT !.log = <<lg>>]

\* zaploggerGetFromContext looking only at whether noopLoggerIfNotPresent
\* was passed
zaploggerGetFromContextPassed(ctx, noop) ==
    IF ctx.log = <<>> \/ ctx.log[1].nil
    THEN IF Len(noop) > 0
         THEN Return(ZapLogger("nop"), Nil)
         ELSE Return(ZapNil, ErrNoLoggerInContext)
    ELSE Return(ctx.log[1], Nil)

\* zaplogger.GetFromContext(ctx, noopLoggerIfNotPresent...): the logger and
\* the error
zaploggerGetFromContext(ctx, noop) ==
    IF ctx.log = <<>> \/ ctx.log[1].nil
    THEN IF Len(noop) > 0 /\ noop[1]
         THEN Return(ZapLogger("nop"), Nil)
         ELSE Return(ZapNil, ErrNoLoggerInContext)
    ELSE Return(ctx.log[1], Nil)

\* what an interceptor of a chain makes of a call: it invokes the next
\* handler with ctx, or it returns err without invoking it
Passed(ctx, header) == [ok |-> TRUE, ctx |-> ctx, header |-> header, ret |-> <<>>]
Stopped(ctx, header, err) == [ok |-> FALSE, ctx |-> ctx, header |-> header, ret |-> <<err>>]

\* l.UnaryInterceptor() and l.StreamInterceptor() on the call p
zaploggerInterceptor(l, kind, p) ==
    LET r == getFor(l, p.ctx, kind)
        ns == [ServerStream |-> p.ctx, Ctx |-> WithLoggerValue(p.ctx, r.v)]
    IN IF r.err # Nil
       THEN Stopped(p.ctx, p.header, StatusInternal("failed setting request logger"))
       ELSE Passed(IF kind = "stream" THEN ServerStreamContext(ns) ELSE WithLoggerValue(p.ctx, r.v),
                   p.header)

\* requestid.UnaryServerInterceptor and StreamServerInterceptor on the call p
requestidInterceptor(kind, p, open, uuid) ==
    LET r == RequestIDInterceptor(kind, p.ctx, open, uuid)
    IN IF r.pc = "done"
       THEN Stopped(p.ctx, p.header, r.ret[1])
       ELSE Passed(r.ctx, SetHeader(p.header, Pairs(requestidMetadataName, r.id)))

\* grpc.ChainUnaryInterceptor / grpc.ChainStreamInterceptor: the
\* interceptors order[i..] on the call p, each the handler of the one before
RECURSIVE RunChain(_, _, _, _, _, _, _)
RunChain(order, i, l, kind, p, open, uuid) ==
    IF i > Len(order) \/ ~p.ok
    THEN p
    ELSE RunChain(order, i + 1, l, kind,
                  IF order[i] = "requestid"
                  THEN requestidInterceptor(kind, p, open, uuid)
                  ELSE zaploggerInterceptor(l, kind, p),
                  open, uuid)

\* the lists of fields given to WithFields
FieldLists ==
    {<<>>, <<FieldServerName>>, <<FieldRequestID>>, <<FieldRemoteAddr, FieldRemoteAddr>>,
     <<FieldServerType, FieldMethod>>}

\* the options given to zaplogger.New
ZapOptions ==
    {WithLogger(ZapNil), WithLogger(ZapLogger("observer")),
     WithServerName(<<>>), WithServerName(<<"hello world">>)}
    \cup {WithFields(f) : f \in FieldLists}
ZapOptionLists == UNION {[1..k -> ZapOptions] : k \in 0..MaxOpts}

\* the chains of interceptors a server is started with
Orders ==
    {<<>>, <<"requestid">>, <<"zaplogger">>, <<"requestid", "zaplogger">>,
     <<"zaplogger", "requestid">>}

\* the contexts calls come with: with or without peer, with or without
\* identifiers
ChainContexts ==
    {[Background EXCEPT !.peer = pr, !.incoming = md] :
       pr \in {<<>>, <<"bufconn">>, <<NilAddr>>},
       md \in {NoMD, EmptyMD,
               Pairs(requestidMetadataName, <<"a">>),
               [ok |-> TRUE, kv |-> [k \in {requestidMetadataName} |-> <<<<>>, <<"a">>>>]],
               [ok |-> TRUE, kv |-> [k \in {requestidMetadataName} |-> <<<<"1">>, <<"a">>>>]]}}

\* l, err := zaplogger.New(o...)
LoggerNew ==
    /\ ~logger.built
    /\ \E o \in ZapOptionLists, dev \in Development :
         logger' = [NoLogger EXCEPT !.built = TRUE, !.l = zaploggerNew(o, dev).a,
                                    !.err = zaploggerNew(o, dev).err]
    /\ UNCHANGED <<a, newErr, built, client, call, get, opts, tasks, rid, out, chain>>

\* zaplogger.New called with options the caller keeps
LoggerNewFromOptions ==
    /\ ~logger.built
    /\ \E o \in ZapOptionLists, dev \in Development :
         logger' = [NoLogger EXCEPT !.built = TRUE, !.l = zaploggerNew(o, dev).a,
                                    !.err = zaploggerNew(o, dev).err, !.opts = o]
    /\ UNCHANGED <<a, newErr, built, client, call, get, opts, tasks, rid, out, chain>>

\* l.GetLogger().Debug("test"): the core receives the message with the
\* fields of the logger
LoggerDebug ==
    /\ logger.l.ok
    /\ logger.logs = <<>>
    /\ logger' = [logger EXCEPT !.logs = <<[msg |-> "test", ctx |-> GetLogger(logger.l).ctx]>>]
    /\ UNCHANGED <<a, newErr, built, client, call, get, opts, tasks, rid, out, chain>>

\* the caller drops the Logger
LoggerDrop ==
    /\ logger.built
    /\ logger' = NoLogger
    /\ UNCHANGED <<a, newErr, built, client, call, get, opts, tasks, rid, out, chain>>

\* construction of a Logger whose caller keeps the options, and its use
NextLoggerNew ==
    \/ LoggerNewFromOptions
    \/ LoggerDebug
    \/ LoggerDrop

SpecLoggerNew == Init /\ [][NextLoggerNew]_vars

\* a call on a server started with one of the chains, up to the call of the
\* handler
ChainCall ==
    /\ logger.built
    /\ chain.pc = "idle"
    /\ \E kind \in {"unary", "stream"}, order \in Orders, ctx \in ChainContexts,
          open \in BOOLEAN :
         /\ (\E i \in 1..Len(order) : order[i] = "zaplogger") => logger.l.ok
         /\ LET p == RunChain(order, 1, logger.l, kind, Passed(ctx, EmptyMD), open, <<"uuid-1">>)
            IN chain' = [NoChain EXCEPT
                           !.pc = IF p.ok THEN "handler" ELSE "done",
                           !.kind = kind, !.order = order, !.in = ctx, !.ctx = p.ctx,
                           !.handlers = IF p.ok THEN 1 ELSE 0,
                           !.header = p.header, !.ret = p.ret]
    /\ UNCHANGED <<a, newErr, built, client, call, get, opts, tasks, rid, out, logger>>

\* the handler calls zaplogger.GetFromContext and requestid.GetFromContext
\* with its context
ChainHandlerGet ==
    /\ chain.pc = "handler"
    /\ chain.got = <<>>
    /\ \E noop \in {<<>>, <<FALSE>>, <<TRUE>>} :
         chain' = [chain EXCEPT
                     !.got = <<[noop |-> noop, res |-> zaploggerGetFromContext(chain.ctx, noop)]>>,
                     !.seen = <<requestidGetFromContext(chain.ctx)>>]
    /\ UNCHANGED <<a, newErr, built, client, call, get, opts, tasks, rid, out, logger>>

\* the call is over
ChainReturn ==
    /\ chain.pc \in {"handler", "done"}
    /\ chain' = NoChain
    /\ UNCHANGED <<a, newErr, built, client, call, get, opts, tasks, rid, out, logger>>

\* a server with the zaplogger and the requestid interceptors, call after
\* call
NextLogger ==
    \/ LoggerNew
    \/ ChainCall
    \/ ChainHandlerGet
    \/ ChainReturn

SpecLogger == Init /\ [][NextLogger]_vars

\* ------------------------------------- calls that come with other values

\* the authorization values of such calls
HeaderValues == {<<"a", " ", "a">>, <<"1", " ", "a">>, <<"a">>, <<"A", " ", "a">>}

\* the contexts of calls that come with one or two authorization values,
\* with or without a peer, an identifier in the request-id metadata and a
\* logger stored by the zaplogger interceptor
RichContexts ==
    {[Background EXCEPT
        !.peer = pr, !.log = lg,
        !.incoming = [ok |-> TRUE,
                      kv |-> [k \in {MetadataName} \cup ks |->
                                IF k = MetadataName THEN vals ELSE <<<<"a">>>>]]] :
       pr \in {<<>>, <<"bufconn">>},
       lg \in {<<>>, <<ZapLogger("observer")>>},
       ks \in {{}, {requestidMetadataName}},
       vals \in UNION {[1..n -> HeaderValues] : n \in 1..2}}

RichArrivals == {[ctx |-> ctx, sent |-> <<>>] : ctx \in RichContexts}

UnaryInterceptorRich == UnaryInterceptorFrom(RichArrivals, {"ping"})

StreamInterceptorRich == StreamInterceptorFrom(RichArrivals)

\* the handler reads what its context carries: the peer address, the
\* identifier of the request, the logger and the outcome
HandlerReads ==
    /\ call.pc = "handler"
    /\ get.read = <<>>
    /\ get' = [NoGet EXCEPT
                 !.read = <<[peer |-> remoteaddrGetFromContext(HandlerContext),
                             id |-> requestidGetFromContext(HandlerContext),
                             log |-> zaploggerGetFromContext(HandlerContext, <<>>),
                             auth |-> GetFromContext(HandlerContext,
                                                     PointerTo("string", Zero("string")))]>>]
    /\ UNCHANGED <<a, newErr, built, client, call, opts, tasks, rid, out, logger, chain>>

\* a server whose authorization interceptor comes after other interceptors
NextContext ==
    \/ NewAuthorization
    \/ UnaryInterceptorRich
    \/ StreamInterceptorRich
    \/ HandlerReads
    \/ HandlerReturn

SpecContext == Init /\ [][NextContext]_vars

\* ------------------------------------------------- calls at the same time

\* the contexts the calls that run at the same time come with: without
\* metadata, with the header "a a", with the header "1 a"
TaskContexts ==
    {Background,
     [Background EXCEPT !.incoming = MDSet(EmptyMD, MetadataName, <<"a", " ", "a">>)],
     [Background EXCEPT !.incoming = MDSet(EmptyMD, MetadataName, <<"1", " ", "a">>)]}

\* the call i reaches an interceptor of the instance
TaskArrive(i) ==
    /\ a.ok
    /\ tasks[i].pc = "idle"
    /\ \E kind \in {"unary", "stream"}, ctx \in TaskContexts :
         tasks' = [tasks EXCEPT ![i] = [NoTask EXCEPT !.pc = "parseMeta", !.kind = kind,
                                                      !.in = ctx]]
    /\ UNCHANGED <<a, newErr, built, client, call, get, opts, rid, out, logger, chain>>

\* parseMeta of the call i up to the validator: it reads the metadata of
\* its context and the methods of the instance
TaskParseMeta(i) ==
    /\ tasks[i].pc = "parseMeta"
    /\ LET md == tasks[i].in.incoming
           vals == MDGet(md, MetadataName)
           res == FindStringSubmatch(vals[1])
       IN tasks' = [tasks EXCEPT ![i] =
            IF ~md.ok \/ Len(vals) < 1
            THEN [@ EXCEPT !.pc = "WithValue", !.v = ErrMissing]
            ELSE IF res = <<>>
            THEN [@ EXCEPT !.pc = "WithValue",
                           !.v = ErrorfW(ErrInvalid, <<": invalid format for authorization metadata">>)]
            ELSE IF validateMethod(res[2]) # Nil
            THEN [@ EXCEPT !.pc = "WithValue", !.v = validateMethod(res[2])]
            ELSE IF res[2] \notin DOMAIN a.methods \/ a.methods[res[2]] = NilFn
            THEN [@ EXCEPT !.pc = "WithValue", !.v = Unsupported(res[2])]
            ELSE [@ EXCEPT !.pc = "fn", !.fn = a.methods[res[2]], !.credential = res[3]]]
    /\ UNCHANGED <<a, newErr, built, client, call, get, opts, rid, out, logger, chain>>

\* the validator of the call i runs and parseMeta returns
TaskValidator(i) ==
    /\ tasks[i].pc = "fn"
    /\ LET r == CallValidator(tasks[i].fn, tasks[i].in, tasks[i].credential)
       IN tasks' = [tasks EXCEPT ![i] =
            [@ EXCEPT !.pc = "WithValue", !.v = IF r.err # Nil THEN r.err ELSE r.v]]
    /\ UNCHANGED <<a, newErr, built, client, call, get, opts, rid, out, logger, chain>>

\* TaskValue reading the outcome of the first call
TaskValueOfFirst(t, i) == t[1].v

\* the outcome the interceptor of the call i attaches to its context: the
\* one its own parseMeta returned
TaskValue(t, i) == t[i].v

\* the interceptor of the call i derives the context (the Ctx of the stream)
\* and invokes the handler with it
TaskWithValue(i) ==
    /\ tasks[i].pc = "WithValue"
    /\ tasks' = [tasks EXCEPT ![i] =
          [@ EXCEPT !.pc = "handler",
                    !.ctx = IF tasks[i].kind = "stream"
                            THEN ServerStreamContext(
                                   [ServerStream |-> tasks[i].in,
                                    Ctx |-> WithValue(tasks[i].in, TaskValue(tasks, i))])
                            ELSE WithValue(tasks[i].in, TaskValue(tasks, i))]]
    /\ UNCHANGED <<a, newErr, built, client, call, get, opts, rid, out, logger, chain>>

\* the handler of the call i calls GetFromContext with a *string
TaskGet(i) ==
    /\ tasks[i].pc = "handler"
    /\ tasks[i].got = <<>>
    /\ LET dest == PointerTo("string", Zero("string"))
       IN tasks' = [tasks EXCEPT ![i] =
            [@ EXCEPT !.dest = dest, !.got = <<GetFromContext(tasks[i].ctx, dest)>>]]
    /\ UNCHANGED <<a, newErr, built, client, call, get, opts, rid, out, logger, chain>>

\* the handler of the call i returns
TaskReturn(i) ==
    /\ tasks[i].pc = "handler"
    /\ tasks' = [tasks EXCEPT ![i] = NoTask]
    /\ UNCHANGED <<a, newErr, built, client, call, get, opts, rid, out, logger, chain>>

\* calls that run at the same time against one instance, their steps
\* interleaved
NextTasks ==
    \/ NewAuthorization
    \/ \E i \in TaskIds :
         \/ TaskArrive(i)
         \/ TaskParseMeta(i)
         \/ TaskValidator(i)
         \/ TaskWithValue(i)
         \/ TaskGet(i)
         \/ TaskReturn(i)

SpecTasks == Init /\ [][NextTasks]_vars

\* the program seen call by call: the request and the messages of each call,
\* what its handler returns and what the interceptor returns
NextCall ==
    \/ NewAuthorization
    \/ ClientAppendShort
    \/ ClientReset
    \/ UnaryInterceptorRequests
    \/ StreamInterceptor
    \/ HandlerGet
    \/ StreamMsg
    \/ HandlerReturns
    \/ CallEnd

SpecCall == Init /\ [][NextCall]_vars

\* ---------------------------------------------------------- properties

\* the handler has called GetFromContext, with a pointer as destination
GetCalled == get.called
PointerDest == get.before.kind \in {"ptr", "nilptr"}
Returned == ~get.res.panic

\* the value the context of the handler carries under contextValueKey
Stored == contextValueKey(call.ctx)

\* the values of the authorization key in the incoming metadata of the call
AuthValues == MDGet(call.in.incoming, MetadataName)

\* the submatches of the first authorization value (<<>> when it does not
\* match)
Decoded == IF AuthValues = <<>> THEN <<>> ELSE FindStringSubmatch(AuthValues[1])

\* what the validator invoked for the call returned
ValidatorReturn ==
    CallValidator(call.invoked[1].fn, call.in, call.invoked[1].credential)

\* sub occurs in text
Contains(text, sub) ==
    \E i \in 1..(Len(text) + 1 - Len(sub)) : SubSeq(text, i, i + Len(sub) - 1) = sub

\* C1: when the validator of the decoded scheme returns (v, nil),
\* GetFromContext with a destination of v's type (of an interface type when
\* v is nil) returns no error and sets the destination to v, whatever v is.
C1_SuccessValueRetrieved ==
    (/\ GetCalled
     /\ call.intercepted
     /\ call.invoked # <<>>
     /\ ValidatorReturn.err = Nil
     /\ get.before.kind = "ptr"
     /\ IF ValidatorReturn.v = Nil
        THEN get.before.elem \in InterfaceTypes
        ELSE get.before.elem = ValidatorReturn.v.type)
    => (Returned /\ get.res.err = Nil /\ get.res.dest.slot = ValidatorReturn.v)

\* C2: without an authorization header (no metadata, no key, a key without
\* value), GetFromContext after the interceptor fails with ErrMissing for
\* every pointer destination.
C2_MissingHeader ==
    (/\ GetCalled
     /\ call.intercepted
     /\ PointerDest
     /\ ~call.in.incoming.ok \/ AuthValues = <<>>)
    => (Returned /\ ErrorsIs(get.res.err, ErrMissing))

C2_Witness ==
    /\ GetCalled
    /\ call.intercepted
    /\ PointerDest
    /\ call.in.incoming.ok
    /\ MetadataName \in DOMAIN call.in.incoming.kv
    /\ AuthValues = <<>>
    /\ ErrorsIs(get.res.err, ErrMissing)

\* C3: on a context no interceptor attached an outcome to, GetFromContext
\* fails with ErrUnchecked for every pointer destination.
C3_Unchecked ==
    (GetCalled /\ ~call.intercepted /\ PointerDest)
    => (Returned /\ get.res.err = ErrUnchecked)

C3_Witness ==
    /\ GetCalled
    /\ ~call.intercepted
    /\ get.before.kind = "ptr"
    /\ get.before.elem = "interface {}"
    /\ AuthValues # <<>>
    /\ get.res.err = ErrUnchecked

\* the first authorization value decodes to a valid method name that has no
\* validator in the registry
UnsupportedHeader ==
    /\ Decoded # <<>>
    /\ validateMethod(Decoded[2]) = Nil
    /\ Decoded[2] \notin DOMAIN a.methods

\* C4: a header that decodes to a valid method without validator makes
\* GetFromContext fail with an error that matches ErrInvalid and carries the
\* method name; no validator is invoked.
C4_UnsupportedScheme ==
    (GetCalled /\ call.intercepted /\ PointerDest /\ UnsupportedHeader)
    => (/\ Returned
        /\ ErrorsIs(get.res.err, ErrInvalid)
        /\ Contains(ErrorText(get.res.err), Decoded[2])
        /\ call.invoked = <<>>)

C4_Witness ==
    /\ GetCalled
    /\ call.intercepted
    /\ PointerDest
    /\ call.sent # <<>>
    /\ call.sent[1].method \notin DOMAIN a.methods
    /\ DOMAIN a.methods # {}
    /\ ErrorsIs(get.res.err, ErrInvalid)

\* the validator invoked for the call returned an error
ValidatorFailed ==
    /\ GetCalled
    /\ call.intercepted
    /\ PointerDest
    /\ call.invoked # <<>>
    /\ ValidatorReturn.err # Nil

\* C5 as claimed: a validator error that matches ErrMissing, ErrInvalid or
\* ErrInvalidMethod is returned by GetFromContext unchanged, every other one
\* as an error matching ErrInvalid.
C5_Original ==
    ValidatorFailed
    => (/\ Returned
        /\ IF \/ ErrorsIs(ValidatorReturn.err, ErrMissing)
              \/ ErrorsIs(ValidatorReturn.err, ErrInvalid)
              \/ ErrorsIs(ValidatorReturn.err, ErrInvalidMethod)
           THEN get.res.err = ValidatorReturn.err
           ELSE ErrorsIs(get.res.err, ErrInvalid))

\* C5 as amended: a validator error that matches ErrMissing or ErrInvalid is
\* returned by GetFromContext unchanged; every other one, one that matches
\* ErrInvalidMethod included, is returned as a new error that matches
\* ErrInvalid (and nothing else) and carries the text of the validator's.
C5_ValidatorError ==
    ValidatorFailed
    => (/\ Returned
        /\ IF \/ ErrorsIs(ValidatorReturn.err, ErrMissing)
              \/ ErrorsIs(ValidatorReturn.err, ErrInvalid)
           THEN get.res.err = ValidatorReturn.err
           ELSE /\ ErrorsIs(get.res.err, ErrInvalid)
                /\ ~ErrorsIs(get.res.err, ErrInvalidMethod)
                /\ Contains(ErrorText(get.res.err), ErrorText(ValidatorReturn.err)))

C5_Witness ==
    /\ ValidatorFailed
    /\ call.invoked[1].fn = "fooFunc"
    /\ ValidatorReturn.err = ErrorsNew("boo")
    /\ ErrorsIs(get.res.err, ErrInvalid)

\* the context carries a value that is a success: not nil, not an error
SuccessStored == Stored # Nil /\ ~IsError(Stored)

\* C6: with a success value v stored, GetFromContext fails with ErrType
\* exactly when v's type is not assignable to the declared type of the
\* destination, and otherwise copies v and returns no error.
C6_Assignability ==
    (GetCalled /\ call.intercepted /\ SuccessStored /\ get.before.kind = "ptr")
    => (/\ Returned
        /\ IF AssignableTo(Stored.type, get.before.elem)
           THEN get.res.err = Nil /\ get.res.dest.slot = Stored
           ELSE ErrorsIs(get.res.err, ErrType))

\* C7: when GetFromContext returns an error, the destination still holds
\* what it held before the call.
C7_DestUnmodifiedOnError ==
    (GetCalled /\ Returned /\ get.res.err # Nil) => get.res.dest = get.before

C7_Witness ==
    /\ GetCalled
    /\ Returned
    /\ SuccessStored
    /\ get.before.kind = "ptr"
    /\ ErrorsIs(get.res.err, ErrType)
    /\ get.res.dest = get.before

\* C8: with a destination that is no pointer GetFromContext fails with
\* ErrType, whatever the context carries, also when it carries no outcome.
C8_NonPointer ==
    (GetCalled /\ get.before.kind = "value")
    => (Returned /\ ErrorsIs(get.res.err, ErrType))

C8_Witness ==
    /\ GetCalled
    /\ get.before.kind = "value"
    /\ ~call.intercepted
    /\ Stored = Nil
    /\ ErrorsIs(get.res.err, ErrType)

\* the context carries a failure
FailureStored == Stored # Nil /\ IsError(Stored)

\* the first authorization value decodes to a method name that violates the
\* naming rule
InvalidSchemeHeader == Decoded # <<>> /\ validateMethod(Decoded[2]) # Nil

\* C9 as claimed: a stored failure is returned by GetFromContext as it is,
\* and for a header whose scheme violates the naming rule the error returned
\* matches ErrInvalidMethod.
C9_Original ==
    (GetCalled /\ call.intercepted /\ PointerDest /\ FailureStored)
    => (/\ Returned
        /\ get.res.err = Stored
        /\ InvalidSchemeHeader => ErrorsIs(get.res.err, ErrInvalidMethod))

\* C9 as amended: a stored failure that matches ErrMissing or ErrInvalid is
\* returned as it is; any other, the one of a scheme violating the naming
\* rule included, is returned as a new error that matches ErrInvalid, does
\* not match ErrInvalidMethod, and carries the text of the stored one.
C9_FailureSurfaced ==
    (GetCalled /\ call.intercepted /\ PointerDest /\ FailureStored)
    => (/\ Returned
        /\ IF ErrorsIs(Stored, ErrMissing) \/ ErrorsIs(Stored, ErrInvalid)
           THEN get.res.err = Stored
           ELSE /\ ErrorsIs(get.res.err, ErrInvalid)
                /\ ~ErrorsIs(get.res.err, ErrInvalidMethod)
                /\ Contains(ErrorText(get.res.err), ErrorText(Stored))
        /\ InvalidSchemeHeader => ErrorsIs(Stored, ErrInvalidMethod))

C9_Witness ==
    /\ GetCalled
    /\ call.intercepted
    /\ PointerDest
    /\ InvalidSchemeHeader
    /\ ErrorsIs(Stored, ErrInvalidMethod)
    /\ ErrorsIs(get.res.err, ErrInvalid)
    /\ get.res.err # Stored

\* the call was made by the client, with the credential it gave to
\* AppendToOutgoingContext for a registered method
SentRegistered ==
    /\ call.intercepted
    /\ call.sent # <<>>
    /\ call.sent[1].method \in DOMAIN a.methods

\* C10 as claimed: the header written by AppendToOutgoingContext(ctx, s, c)
\* makes parseMeta invoke the validator of s, once, with exactly c.
C10_Original ==
    SentRegistered
    => call.invoked = <<[fn |-> a.methods[call.sent[1].method],
                         ctx |-> call.in, credential |-> call.sent[1].credential]>>

\* c without the whitespace it starts with
RECURSIVE TrimLeft(_)
TrimLeft(c) == IF c # <<>> /\ c[1] \in {" ", "\n"} THEN TrimLeft(Tail(c)) ELSE c

\* c up to its first newline
RECURSIVE FirstLine(_)
FirstLine(c) == IF c = <<>> \/ c[1] = "\n" THEN <<>> ELSE <<c[1]>> \o FirstLine(Tail(c))

\* C10 as amended: the header written by AppendToOutgoingContext(ctx, s, c)
\* makes parseMeta invoke the validator of s, once, with the first line of c
\* stripped of its leading whitespace; that is with exactly c when c neither
\* starts with whitespace nor contains a newline.
C10_RoundTrip ==
    SentRegistered
    => (/\ Len(call.invoked) = 1
        /\ call.invoked[1].fn = a.methods[call.sent[1].method]
        /\ call.invoked[1].credential = FirstLine(TrimLeft(call.sent[1].credential))
        /\ (FirstLine(TrimLeft(call.sent[1].credential)) = call.sent[1].credential)
           => call.invoked[1].credential = call.sent[1].credential)

C10_Witness ==
    /\ SentRegistered
    /\ call.sent[1].credential = <<"a", " ", "A">>
    /\ call.invoked = <<[fn |-> a.methods[call.sent[1].method],
                         ctx |-> call.in, credential |-> <<"a", " ", "A">>]>>

\* the positions of h where a whitespace-separated token starts
TokenStarts(h) ==
    {i \in 1..Len(h) : ~IsReSpace(h[i]) /\ (i = 1 \/ IsReSpace(h[i - 1]))}

\* h has no second whitespace-separated token
LacksSecondToken(h) == Cardinality(TokenStarts(h)) < 2

\* h has no whitespace character, or nothing else
NoSeparator(h) ==
    \/ \A i \in 1..Len(h) : ~IsReSpace(h[i])
    \/ \A i \in 1..Len(h) : IsReSpace(h[i])

\* h is one token followed by whitespace and nothing more
TokenThenSpaces(h) ==
    /\ TokenStarts(h) = {1}
    /\ IsReSpace(h[Len(h)])

\* the call went through an interceptor and carries an authorization value
InterceptedHeader == call.intercepted /\ call.in.incoming.ok /\ AuthValues # <<>>

\* C11 as claimed: a header without a second whitespace-separated token
\* (empty, a single token, a token followed only by whitespace) gives an
\* outcome that matches ErrInvalid, and no validator is invoked.
C11_Original ==
    (InterceptedHeader /\ LacksSecondToken(AuthValues[1]))
    => (ErrorsIs(Stored, ErrInvalid) /\ call.invoked = <<>>)

\* C11 as amended: a header that is empty, has no whitespace, or is made of
\* whitespace only gives an outcome that matches ErrInvalid, and no validator
\* is invoked; a token followed only by whitespace is decoded as that method
\* with an empty credential, so that the validator of a registered method is
\* invoked with "".
C11_MalformedHeader ==
    InterceptedHeader
    => (/\ NoSeparator(AuthValues[1])
           => (ErrorsIs(Stored, ErrInvalid) /\ call.invoked = <<>>)
        /\ (/\ TokenThenSpaces(AuthValues[1])
            /\ SubStr(AuthValues[1], 1, RunEnd(AuthValues[1], 1, ReNotSpace))
                 \in DOMAIN a.methods)
           => call.invoked =
                <<[fn |-> a.methods[SubStr(AuthValues[1], 1,
                                           RunEnd(AuthValues[1], 1, ReNotSpace))],
                   ctx |-> call.in, credential |-> <<>>]>>)

C11_Witness ==
    /\ InterceptedHeader
    /\ AuthValues[1] = <<"a">>
    /\ <<"a">> \in DOMAIN a.methods
    /\ ErrorsIs(Stored, ErrInvalid)
    /\ call.invoked = <<>>

\* name breaks the rule of method names: not empty, lowercase, letters and
\* digits only, no whitespace
BreaksRule(name) ==
    \/ name = <<>>
    \/ \E i \in 1..Len(name) : name[i] \notin {"a", "1"}

\* New was called with the single option WithMethodFunction(name, fn), name
\* breaking the rule and fn not nil
RegisteredBadName ==
    /\ built
    /\ Len(opts) = 1
    /\ opts[1].fn # NilFn
    /\ BreaksRule(opts[1].method)

\* the client called AppendToOutgoingContext with a name breaking the rule
AppendedBadName == client.args # <<>> /\ BreaksRule(client.args[1].method)

\* the header of the call is "name credential" for a name breaking the rule
BadNameHeader(name) ==
    /\ InterceptedHeader
    /\ BreaksRule(name)
    /\ \E c \in Credentials : AuthValues[1] = name \o <<" ">> \o c

\* C12 as claimed: a name breaking the rule is rejected with an error that
\* matches ErrInvalidMethod by New(WithMethodFunction(name, fn)), by
\* AppendToOutgoingContext and by parseMeta alike.
C12_Original ==
    /\ RegisteredBadName => (~a.ok /\ ErrorsIs(newErr, ErrInvalidMethod))
    /\ AppendedBadName => (~client.ok /\ ErrorsIs(client.err, ErrInvalidMethod))
    /\ \A name \in MethodNames :
         BadNameHeader(name) => ErrorsIs(Stored, ErrInvalidMethod)

\* C12 as amended: a name breaking the rule is rejected at every entry point,
\* but not with the same kind of error. New returns no instance and an error
\* that matches ErrInvalidOptionValue, does not match ErrInvalidMethod and
\* carries the text of validateMethod's error; AppendToOutgoingContext
\* returns no context and validateMethod's error, which matches
\* ErrInvalidMethod; parseMeta gives validateMethod's error when the name is
\* the first token of the header, which an empty name and a name with
\* whitespace cannot be, and invokes no validator.
C12_NameRule ==
    /\ RegisteredBadName
       => (/\ ~a.ok
           /\ ErrorsIs(newErr, ErrInvalidOptionValue)
           /\ ~ErrorsIs(newErr, ErrInvalidMethod)
           /\ Contains(ErrorText(newErr), ErrorText(validateMethod(opts[1].method))))
    /\ AppendedBadName
       => (/\ ~client.ok
           /\ client.err = validateMethod(client.args[1].method)
           /\ ErrorsIs(client.err, ErrInvalidMethod))
    /\ \A name \in MethodNames :
         (BadNameHeader(name) /\ name # <<>> /\ ~\E i \in 1..Len(name) : IsReSpace(name[i]))
         => (/\ Stored = validateMethod(name)
             /\ ErrorsIs(Stored, ErrInvalidMethod)
             /\ call.invoked = <<>>)

C12_Witness ==
    /\ RegisteredBadName
    /\ opts[1].method = <<"A">>
    /\ ~a.ok
    /\ ErrorsIs(newErr, ErrInvalidOptionValue)

\* the options of opts that fail: a nil function, a name breaking the rule
Failing == {i \in 1..Len(opts) : opts[i].fn = NilFn \/ BreaksRule(opts[i].method)}

\* the first of them
FirstFailing == CHOOSE i \in Failing : \A j \in Failing : i <= j

\* what the error of New says of the option that failed: the nil function is
\* looked at before the name
Describes(opt) ==
    IF opt.fn = NilFn
    THEN <<"cannot use a nil function">>
    ELSE ErrorText(validateMethod(opt.method))

\* C13: New applies its options in order and stops at the first that fails:
\* it then returns no instance and an error that matches
\* ErrInvalidOptionValue and describes that option; it returns an instance,
\* and no error, only when every option succeeded.
C13_FailFast ==
    built
    => IF Failing = {}
       THEN a.ok /\ newErr = Nil
       ELSE /\ a = NoInstance
            /\ ErrorsIs(newErr, ErrInvalidOptionValue)
            /\ Contains(ErrorText(newErr), Describes(opts[FirstFailing]))

C13_Witness ==
    /\ built
    /\ opts = <<[method |-> <<"A">>, fn |-> "fooFunc"], [method |-> <<"a">>, fn |-> NilFn]>>
    /\ a = NoInstance
    /\ Contains(ErrorText(newErr), <<": must be lowercase">>)
    /\ ~Contains(ErrorText(newErr), <<"cannot use a nil function">>)

\* the options of opts given for the method m, and the last of them
OptionsFor(m) == {i \in 1..Len(opts) : opts[i].method = m}
LastFor(m) == CHOOSE i \in OptionsFor(m) : \A j \in OptionsFor(m) : j <= i

\* C14: the instance New returns has one validator for each method of its
\* options, the one of the last option given for that method, and a call
\* whose header carries the method invokes that validator, once, and no
\* other.
C14_LastWins ==
    (built /\ a.ok)
    => (/\ DOMAIN a.methods = {opts[i].method : i \in 1..Len(opts)}
        /\ \A m \in DOMAIN a.methods : a.methods[m] = opts[LastFor(m)].fn
        /\ (/\ InterceptedHeader
            /\ Decoded # <<>>
            /\ OptionsFor(Decoded[2]) # {})
           => call.invoked = <<[fn |-> opts[LastFor(Decoded[2])].fn,
                                ctx |-> call.in, credential |-> Decoded[3]]>>)

C14_Witness ==
    /\ built
    /\ opts = <<[method |-> <<"a">>, fn |-> "fooFunc"], [method |-> <<"a">>, fn |-> "switchFunc"]>>
    /\ InterceptedHeader
    /\ AuthValues[1] = <<"a", " ">>
    /\ call.invoked = <<[fn |-> "switchFunc", ctx |-> call.in, credential |-> <<>>]>>

\* the outcome of the call in progress, computed from the context it came
\* with and the registry
Outcome == parseMeta(a, call.in).v

\* a call that went through an interceptor is in progress or just over
Intercepted == call.intercepted /\ call.pc # "idle"

\* C15: whatever the outcome, the interceptor invokes the handler once, with
\* the context that carries the outcome and the request (the srv) it was
\* given, and returns what the handler returned: response and error.
C15_NeverRejects ==
    Intercepted
    => (/\ call.handlers = 1
        /\ call.hreq = call.req
        /\ call.ctx = WithValue(call.in, Outcome)
        /\ call.pc = "done" => (call.hret # <<>> /\ call.ret = call.hret))

C15_Witness ==
    /\ Intercepted
    /\ call.kind = "unary"
    /\ call.req = "pong"
    /\ call.hreq = "pong"
    /\ Stored = ErrMissing
    /\ call.pc = "done"
    /\ call.ret = <<HandlerReturned(StringValue(<<"o", "k">>), Nil)>>

\* a stream that went through the interceptor is in the hands of its handler
StreamHandled == call.intercepted /\ call.kind = "stream" /\ call.pc = "handler"

\* C16: on a stream the validator is invoked at most once, however many
\* messages go through, and Context() of the stream handed to the handler
\* answers, at every point, a context that carries the outcome computed when
\* the stream was established; GetFromContext on it gives the same whenever
\* it is called.
C16_OncePerStream ==
    /\ [](StreamHandled
           => (/\ Len(call.invoked) <= 1
               /\ call.ns # <<>>
               /\ contextValueKey(HandlerContext) = Outcome
               /\ GetCalled
                  => get.res = GetFromContext(WithValue(call.in, Outcome), get.before)))
    /\ [][(StreamHandled /\ call'.pc = "handler")
           => (/\ call'.invoked = call.invoked
               /\ call'.ns = call.ns
               /\ call'.in = call.in)]_vars

C16_Witness ==
    /\ StreamHandled
    /\ call.msgs = MaxMsgs
    /\ GetCalled
    /\ get.at = MaxMsgs
    /\ Len(call.invoked) = 1
    /\ SuccessStored
    /\ get.res.err = Nil
    /\ get.res.dest.slot = Stored

\* C17: after each AppendToOutgoingContext of a chain, the outgoing metadata
\* of the context returned carry one authorization value, "method
\* credential" of that call, whatever the context already carried; with a
\* name breaking the rule no context is returned, and the error matches
\* ErrInvalidMethod.
C17_AppendReplaces ==
    client.args # <<>>
    => IF BreaksRule(client.args[1].method)
       THEN ~client.ok /\ ErrorsIs(client.err, ErrInvalidMethod)
       ELSE /\ client.ok
            /\ client.err = Nil
            /\ client.ctx.outgoing.ok
            /\ MDGet(client.ctx.outgoing, MetadataName)
                 = <<client.args[1].method \o <<" ">> \o client.args[1].credential>>

C17_Witness ==
    /\ client.args # <<>>
    /\ client.ok
    /\ MDGet(client.base.outgoing, MetadataName) = <<<<"a", " ", "a">>>>
    /\ client.args[1] = [method |-> <<"1">>, credential |-> <<" ">>]
    /\ MDGet(client.ctx.outgoing, MetadataName) = <<<<"1", " ", " ">>>>

\* the kind of outcome of a call that comes with the context ctx: how far
\* parseMeta gets with it
Category(ctx) ==
    LET vals == MDGet(ctx.incoming, MetadataName)
        res == FindStringSubmatch(vals[1])
        p == parseMeta(a, ctx)
    IN IF ~ctx.incoming.ok \/ vals = <<>> THEN "Missing"
       ELSE IF res = <<>> THEN "MalformedHeader"
       ELSE IF BreaksRule(res[2]) THEN "InvalidSchemeName"
       ELSE IF res[2] \notin DOMAIN a.methods THEN "UnsupportedScheme"
       ELSE IF CallValidator(p.invoked[1].fn, ctx, p.invoked[1].credential).err # Nil
       THEN "ValidatorError"
       ELSE "Success"

\* the sentinel errors err matches
Kinds(err) ==
    {s \in {ErrInvalidOptionValue, ErrUnchecked, ErrMissing, ErrInvalid, ErrType,
              ErrInvalidMethod} : ErrorsIs(err, s)}

\* the kinds of failure a handler is to tell apart
Distinguished == {"Missing", "UnsupportedScheme", "MalformedHeader", "ValidatorError"}

\* the handler got an error from GetFromContext, called with a pointer after
\* an interceptor
HandlerGotError ==
    /\ GetCalled
    /\ call.intercepted
    /\ PointerDest
    /\ Returned
    /\ get.res.err # Nil

\* the error the handler of a call that comes with the metadata md would get
ErrorFor(md) ==
    LET ctx == [Background EXCEPT !.incoming = md]
    IN GetFromContext(WithValue(ctx, parseMeta(a, ctx).v), get.before).err

\* C18 as claimed: the errors GetFromContext returns for two calls whose
\* outcomes are of two different kinds among Missing, UnsupportedScheme,
\* MalformedHeader and ValidatorError never match the same sentinels.
C18_Original ==
    (HandlerGotError /\ Category(call.in) \in Distinguished)
    => \A md \in IncomingMDs :
         (/\ Category([Background EXCEPT !.incoming = md]) \in Distinguished
          /\ Category([Background EXCEPT !.incoming = md]) # Category(call.in))
         => Kinds(ErrorFor(md)) # Kinds(get.res.err)

\* C18 as amended: the error of a Missing outcome matches ErrMissing and
\* not ErrInvalid; the errors of the UnsupportedScheme and MalformedHeader
\* outcomes match ErrInvalid and no other sentinel; the error of a
\* ValidatorError outcome matches ErrInvalid and no other sentinel too,
\* unless the validator's error matches ErrMissing, and then it is returned
\* as it is.  By the sentinels it matches, the error tells Missing from a
\* malformed or unsupported header and nothing more.
C18_Kinds ==
    HandlerGotError
    => (/\ Category(call.in) = "Missing" => Kinds(get.res.err) = {ErrMissing}
        /\ Category(call.in) \in {"UnsupportedScheme", "MalformedHeader"}
           => Kinds(get.res.err) = {ErrInvalid}
        /\ Category(call.in) = "ValidatorError"
           => IF ErrorsIs(ValidatorReturn.err, ErrMissing)
              THEN get.res.err = ValidatorReturn.err
              ELSE Kinds(get.res.err) = {ErrInvalid})

C18_Witness ==
    /\ HandlerGotError
    /\ Category(call.in) = "ValidatorError"
    /\ call.invoked[1].fn = "switchFunc"
    /\ Kinds(get.res.err) = {ErrInvalid}
    /\ \E md \in IncomingMDs :
         /\ Category([Background EXCEPT !.incoming = md]) = "UnsupportedScheme"
         /\ Kinds(ErrorFor(md)) = {ErrInvalid}

\* what the handler of a call that comes alone with the context ctx gets
\* from GetFromContext for the destination dest
Alone(ctx, dest) == GetFromContext(WithValue(ctx, parseMeta(a, ctx).v), dest)

\* C19: whatever the interleaving of the calls, what GetFromContext returns
\* to the handler of each is what it returns to a call that comes alone with
\* the same context against the same instance; the instance never changes.
C19_Isolation ==
    /\ [](\A i \in TaskIds :
            tasks[i].got # <<>> => tasks[i].got[1] = Alone(tasks[i].in, tasks[i].dest))
    /\ [][built => a' = a]_vars

C19_Witness ==
    /\ tasks[1].kind = "unary"
    /\ tasks[2].kind = "stream"
    /\ tasks[1].got # <<>>
    /\ tasks[2].got # <<>>
    /\ tasks[1].got[1].err = Nil
    /\ tasks[2].got[1].err = Nil
    /\ tasks[1].got[1].dest.slot # tasks[2].got[1].dest.slot

\* the identifier the call came with: the first value of the key in the
\* metadata of the client, none when there are no metadata or no value
SentID ==
    IF rid.in.incoming.ok /\ requestidMetadataName \in DOMAIN rid.in.incoming.kv
       /\ rid.in.incoming.kv[requestidMetadataName] # <<>>
    THEN rid.in.incoming.kv[requestidMetadataName][1]
    ELSE <<>>

\* C20: the handler of a call is invoked with a context in which
\* requestid.GetFromContext finds an identifier that is not empty: the one
\* the call came with when that one is not empty, else a generated one; the
\* header of the response carries that identifier and no other.  The
\* handler is not invoked only when the header cannot be set, and the call
\* then fails with an Internal status.
C20_RequestID ==
    /\ rid.handlers = 1
       => (/\ requestidGetFromContext(rid.ctx) # <<>>
           /\ requestidGetFromContext(rid.ctx)
                = (IF SentID # <<>> THEN SentID ELSE rid.id)
           /\ SentID = <<>> => rid.id \in UUIDs
           /\ rid.seen # <<>> => rid.seen[1] = requestidGetFromContext(rid.ctx)
           /\ MDGet(rid.header, requestidMetadataName) = <<requestidGetFromContext(rid.ctx)>>)
    /\ (rid.pc # "idle" /\ rid.handlers = 0)
       => (~rid.open /\ rid.ret = <<StatusInternal("failed setting request correlation identifier")>>)

C20_Witness ==
    /\ rid.kind = "stream"
    /\ rid.handlers = 1
    /\ rid.in.incoming.ok
    /\ MDGet(rid.in.incoming, requestidMetadataName) = <<<<"a">>, <<"1">>>>
    /\ rid.seen = <<<<"a">>>>
    /\ MDGet(rid.header, requestidMetadataName) = <<<<"a">>>>

\* the identifier the last AppendToOutgoingContext of the client was to set
AppendedID == IF out.args[1].id = <<>> THEN out.args[1].uuid ELSE out.args[1].id[1]

\* C21: the context requestid.AppendToOutgoingContext returns carries one
\* outgoing request-id value and no more, the identifier passed (a generated
\* one that is not empty when none is passed), whatever the context it was
\* called on carried and however many times it was called.
C21_ExactlyOne ==
    out.args # <<>>
    => (/\ MDGet(out.ctx.outgoing, requestidMetadataName) = <<AppendedID>>
        /\ out.args[1].id = <<>> => AppendedID # <<>>)

\* the call went through the zaplogger interceptor
ThroughZaplogger == \E i \in 1..Len(chain.order) : chain.order[i] = "zaplogger"

\* C22: zaplogger.GetFromContext returns (nil, ErrNoLoggerInContext) on a
\* context no zaplogger interceptor stored a logger in when
\* noopLoggerIfNotPresent is absent or false, a no-op logger that is not nil
\* and no error when it is true, and, in a handler reached through the
\* zaplogger interceptor, the logger of the call, not nil, and no error.
C22_LoggerFromContext ==
    chain.got # <<>>
    => IF ThroughZaplogger
       THEN /\ ~chain.got[1].res.v.nil
            /\ chain.got[1].res.err = Nil
            /\ chain.got[1].res.v.core = GetLogger(logger.l).core
       ELSE IF chain.got[1].noop = <<TRUE>>
       THEN chain.got[1].res = Return(ZapLogger("nop"), Nil)
       ELSE chain.got[1].res = Return(ZapNil, ErrNoLoggerInContext)

C22_Witness ==
    /\ chain.got # <<>>
    /\ chain.kind = "stream"
    /\ chain.order = <<"requestid", "zaplogger">>
    /\ chain.got[1].noop = <<FALSE>>
    /\ ~chain.got[1].res.v.nil
    /\ chain.got[1].res.err = Nil

\* the options given to zaplogger.New that set a name, that activate
\* FieldServerName, that fail
NameOptions == {i \in 1..Len(logger.opts) : logger.opts[i].opt = "WithServerName"}
ActivatingOptions ==
    {i \in 1..Len(logger.opts) :
       /\ logger.opts[i].opt = "WithFields"
       /\ \E k \in 1..Len(logger.opts[i].fields) : logger.opts[i].fields[k] = FieldServerName}
FailingOptions ==
    {i \in 1..Len(logger.opts) :
       \/ logger.opts[i].opt = "WithServerName" /\ logger.opts[i].name = <<>>
       \/ logger.opts[i].opt = "WithLogger" /\ logger.opts[i].logger.nil}

\* the server_name fields of the logger New built
ServerNameFields ==
    {k \in 1..Len(GetLogger(logger.l).ctx) : GetLogger(logger.l).ctx[k].key = FieldServerName}

\* C23: the logger New built carries the server_name field, once and with
\* the last name set, exactly when a name was set with WithServerName and
\* FieldServerName was activated with WithFields, in whatever order, and the
\* entries it logs carry it; an empty name or a nil logger among the
\* options makes New return a nil Logger and an error that matches
\* ErrInvalidOptionValue.
C23_ServerName ==
    /\ logger.l.ok
       => (/\ FailingOptions = {}
           /\ ServerNameFields # {} <=> (NameOptions # {} /\ ActivatingOptions # {})
           /\ Cardinality(ServerNameFields) <= 1
           /\ \A k \in ServerNameFields :
                 GetLogger(logger.l).ctx[k].val
                   = logger.opts[CHOOSE i \in NameOptions : \A j \in NameOptions : j <= i].name
           /\ logger.logs # <<>> => logger.logs[1].ctx = GetLogger(logger.l).ctx)
    /\ (logger.built /\ FailingOptions # {})
       => (/\ logger.l = NilLogger
           /\ ErrorsIs(logger.err, zaploggerErrInvalidOptionValue))

C23_Witness ==
    /\ logger.l.ok
    /\ logger.opts = <<WithFields(<<FieldServerName>>), WithServerName(<<"hello world">>)>>
    /\ logger.logs # <<>>
    /\ logger.logs[1].ctx = <<ZapString(FieldServerName, <<"hello world">>)>>

\* the requestid fields of the logger the handler has, and the identifier
\* the call came with (the first value of the key, none without one)
RequestIDFields ==
    {k \in 1..Len(chain.ctx.log[1].ctx) : chain.ctx.log[1].ctx[k].key = FieldRequestID}
ChainSentID == requestidGetFromContext(chain.in)

\* C30: with FieldRequestID activated, in the handler of a call that went
\* through the requestid interceptor and then the zaplogger interceptor the
\* logger carries the requestid field, once, with the identifier
\* requestid.GetFromContext returns to the handler, which is never empty;
\* through the zaplogger interceptor and then the requestid interceptor the
\* logger carries the field exactly when the call came with an identifier
\* that is not empty, and with that identifier.
C30_RequestIDField ==
    (chain.pc = "handler" /\ hasField(logger.l, FieldRequestID))
    => /\ chain.order = <<"requestid", "zaplogger">>
          => (/\ Cardinality(RequestIDFields) = 1
              /\ \A k \in RequestIDFields :
                    /\ chain.ctx.log[1].ctx[k].val = requestidGetFromContext(chain.ctx)
                    /\ chain.ctx.log[1].ctx[k].val # <<>>
                    /\ chain.seen # <<>> => chain.ctx.log[1].ctx[k].val = chain.seen[1])
       /\ chain.order = <<"zaplogger", "requestid">>
          => (/\ RequestIDFields # {} <=> ChainSentID # <<>>
              /\ Cardinality(RequestIDFields) <= 1
              /\ \A k \in RequestIDFields : chain.ctx.log[1].ctx[k].val = ChainSentID
              /\ requestidGetFromContext(chain.ctx) # <<>>)

C30_Witness ==
    /\ chain.pc = "handler"
    /\ chain.kind = "unary"
    /\ chain.order = <<"zaplogger", "requestid">>
    /\ hasField(logger.l, FieldRequestID)
    /\ ChainSentID = <<>>
    /\ RequestIDFields = {}
    /\ chain.seen = <<<<"uuid-1">>>>

\* the header of the call decodes to a method that has a validator
DecodesToRegistered ==
    /\ call.in.incoming.ok
    /\ Decoded # <<>>
    /\ validateMethod(Decoded[2]) = Nil
    /\ Decoded[2] \in DOMAIN a.methods

\* C24: in a call through an interceptor the validator registered for the
\* decoded method is invoked once, with the context the call came with and
\* the decoded credential, when the header decodes to a registered method;
\* no validator is invoked when the header is missing, malformed, or names a
\* method that is invalid or has no validator.
C24_ValidatorOnce ==
    (call.intercepted /\ call.pc # "idle")
    => IF DecodesToRegistered
       THEN call.invoked = <<[fn |-> a.methods[Decoded[2]], ctx |-> call.in,
                              credential |-> Decoded[3]]>>
       ELSE call.invoked = <<>>

C24_Witness ==
    /\ call.intercepted
    /\ call.kind = "stream"
    /\ call.pc = "handler"
    /\ DOMAIN a.methods = {<<"a">>, <<"1">>}
    /\ a.methods[<<"a">>] # a.methods[<<"1">>]
    /\ AuthValues = <<<<"1", " ", "a", "a">>>>
    /\ call.invoked = <<[fn |-> a.methods[<<"1">>], ctx |-> call.in, credential |-> <<"a", "a">>]>>

\* ctx with the first of its authorization values only
FirstValueOnly(ctx) ==
    [ctx EXCEPT !.incoming.kv =
       [k \in DOMAIN @ |-> IF k = MetadataName THEN <<@[k][1]>> ELSE @[k]]]

\* C25: the outcome of a call that comes with several authorization values
\* is the outcome of the call that comes with the first of them only, and
\* so is what GetFromContext returns to its handler.
C25_FirstValue ==
    (call.intercepted /\ call.pc # "idle")
    => (/\ Stored = parseMeta(a, FirstValueOnly(call.in)).v
        /\ get.read # <<>>
           => get.read[1].auth
                = GetFromContext(WithValue(call.in, parseMeta(a, FirstValueOnly(call.in)).v),
                                 PointerTo("string", Zero("string"))))

C25_Witness ==
    /\ call.intercepted
    /\ call.pc = "handler"
    /\ AuthValues = <<<<"a", " ", "a">>, <<"a">>>>
    /\ get.read # <<>>
    /\ get.read[1].auth.err = Nil
    /\ get.read[1].auth.dest.slot = StringValue(<<"o", "k">>)

\* the context the stream the call came with answers to Context()
OriginalContext ==
    IF call.ns # <<>> THEN ServerStreamContextEmbedded(call.ns[1]) ELSE call.in

\* C26: the context the interceptor hands to the handler is the context of
\* the call with the outcome added: the peer address, the incoming metadata
\* (the identifier of the request among them) and the logger another
\* interceptor stored are read from it as from the context of the call,
\* which carries no outcome afterwards either.
C26_ContextDerived ==
    (call.intercepted /\ call.pc # "idle")
    => (/\ OriginalContext = call.in
        /\ contextValueKey(OriginalContext) = Nil
        /\ [HandlerContext EXCEPT !.auth = <<>>] = call.in
        /\ get.read # <<>>
           => (/\ get.read[1].peer = remoteaddrGetFromContext(call.in)
               /\ get.read[1].id = requestidGetFromContext(call.in)
               /\ get.read[1].log = zaploggerGetFromContext(call.in, <<>>)))

C26_Witness ==
    /\ call.intercepted
    /\ call.kind = "stream"
    /\ call.pc = "handler"
    /\ get.read # <<>>
    /\ get.read[1].peer = Return("bufconn", Nil)
    /\ get.read[1].id = <<"a">>
    /\ get.read[1].log = Return(ZapLogger("observer"), Nil)
    /\ get.read[1].auth.err = Nil
    /\ GetFromContext(OriginalContext, PointerTo("string", Zero("string"))).err = ErrUnchecked

\* C27: once New has returned, no call through the unary or the stream
\* interceptor, no GetFromContext of a handler and no
\* AppendToOutgoingContext of the client changes the instance: its methods
\* and their validators stay what New made them.
C27_Immutable == [][built => (a' = a /\ newErr' = newErr)]_vars

C27_Witness ==
    /\ built
    /\ DOMAIN a.methods = {<<"a">>}
    /\ call.intercepted
    /\ call.kind = "unary"
    /\ AuthValues = <<<<"1", " ", "a">>>>
    /\ GetCalled
    /\ ErrorsIs(get.res.err, ErrInvalid)

\* C28: after an interceptor has run for the call, GetFromContext never
\* returns ErrUnchecked, whatever the header and whatever the validator
\* returned; ErrUnchecked is returned only when no interceptor ran.
C28_NeverUnchecked ==
    (GetCalled /\ Returned /\ ErrorsIs(get.res.err, ErrUnchecked)) => ~call.intercepted

\* C29: GetFromContext returns, with nil or with an error, and never
\* panics, whatever the stored outcome and the destination; when it returns
\* nil the destination holds the stored value.
C29_NeverPanics ==
    GetCalled
    => (/\ Returned
        /\ get.res.err = Nil => get.res.dest.slot = Stored)

====
